---- MODULE Spec2Model ----
(***************************************************************************)
(* TV headend file bundles (src/src/filebundle.c): directory and file      *)
(* handles over two backends (the compiled-in bundle tree and the real     *)
(* filesystem), with gzip inflate/deflate at open time.                    *)
(*                                                                         *)
(* Conventions.  A C pointer that may be NULL is a sequence: <<>> is NULL  *)
(* and <<x>> points at x.  A C string is a sequence of one-character       *)
(* strings; file content is a sequence of byte values.  A bundle entry is  *)
(* named by its index in the static tree, 0 standing for NULL.             *)
(***************************************************************************)
EXTENDS Integers, Sequences, FiniteSets, TLC

VARIABLES
  dataroot,   \* what tvheadend_dataroot() returns: NULL or a path
  dir,        \* the fb_dir* the caller holds (NULL or one handle)
  fp,         \* the fb_file* the caller holds (NULL or one handle)
  heap,       \* how many objects of each kind are allocated / open
  cbuf,       \* the caller's array after the last fb_read or fb_gets
  last,       \* the last call: its name, arguments and return value
  src,        \* what the held file handle was opened on (content as stored)
  mode,       \* how the held handle has been used since it was opened
  out,        \* the bytes a loop of fb_read calls has collected so far
  lines,      \* the lines a loop of fb_gets calls has collected so far
  seen        \* the entries fb_readdir has returned on the held Bundle fb_dir

vars ==
  <<dataroot, dir, fp, heap, cbuf, last, src, mode, out, lines, seen>>

(***************************************************************************)
(* Bounds of the model.                                                    *)
(***************************************************************************)
\* size of the caller's buffer, and the largest count passed to a read
BufLen == 9
\* how many directory handles fb_open may leave behind before the model stops
MaxLeak == 1

(***************************************************************************)
(* Small helpers.                                                          *)
(*                                                                         *)
(* Where a value is computed once and used several times the definitions   *)
(* write  CHOOSE r \in { F(x) : x \in {e} } : TRUE  for  LET x == e IN F(x) *)
(* so that e is evaluated once.                                            *)
(***************************************************************************)
Min(a, b) == IF a < b THEN a ELSE b

Take(s, n) == SubSeq(s, 1, Min(n, Len(s)))

Drop(s, n) == SubSeq(s, n + 1, Len(s))

Rep(b, n) == [i \in 1..n |-> b]

\* memcpy(buf + at, bytes, Len(bytes)) on the array buf
Memcpy(buf, at, bytes) ==
  [i \in 1..Len(buf) |->
     IF i > at /\ i <= at + Len(bytes) THEN bytes[i - at] ELSE buf[i]]

\* the C string held in an array: the bytes before the first NUL
RECURSIVE CStr(_)
CStr(buf) ==
  IF buf = <<>> \/ Head(buf) = 0 THEN <<>>
  ELSE <<Head(buf)>> \o CStr(Tail(buf))

(***************************************************************************)
(* The codec: zlib's deflate and inflate with gzip framing (windowBits     *)
(* 31), computed as zlib computes them.  A gzip stream is a header of 10   *)
(* bytes (more if its flag byte says so), deflate blocks, and a trailer of *)
(* 8 bytes: the CRC-32 and the length of the content, each as 4 bytes,     *)
(* least significant first.  Bits are 0 or 1; a stream of bits fills each  *)
(* byte from its least significant bit.  32-bit values are kept as their   *)
(* 32 bits or their 4 bytes, least significant first.                      *)
(*                                                                         *)
(* A loop of zlib over the bytes or bits of its input is a recursion here  *)
(* that does the first half of the passes and then the second half, so     *)
(* that the evaluation stays shallow however long the input is.            *)
(***************************************************************************)
\* the sequence s as an explicit tuple
Tuple(s) == SubSeq(s, 1, Len(s))

\* the k low bits of n, least significant first
BitsLSB(n, k) == Tuple([i \in 1..k |-> (n \div 2^(i - 1)) % 2])

\* the k low bits of n, most significant first (the order of Huffman codes)
BitsMSB(n, k) == Tuple([i \in 1..k |-> (n \div 2^(k - i)) % 2])

\* the number whose bits, least significant first, are bits
RECURSIVE NumLSB(_)
NumLSB(bits) ==
  IF bits = <<>> THEN 0 ELSE Head(bits) + 2 * NumLSB(Tail(bits))

BytesToBits(bytes) ==
  Tuple([i \in 1..8 * Len(bytes) |->
           (bytes[(i - 1) \div 8 + 1] \div 2^((i - 1) % 8)) % 2])

\* the bytes a stream of bits fills, the last one padded with 0 bits
BitsToBytes(bits) ==
  Tuple([j \in 1..(Len(bits) + 7) \div 8 |->
           NumLSB(SubSeq(bits, 8 * j - 7, Min(8 * j, Len(bits))))])

\* n < 2^31 as 4 bytes, least significant first
LE32(n) ==
  << n % 256, (n \div 256) % 256, (n \div 65536) % 256, n \div 16777216 >>

\* the polynomial of CRC-32, 0xEDB88320, as 32 bits
CrcPoly == BytesToBits(<<32, 131, 184, 237>>)

Xor(a, b) == Tuple([i \in 1..Len(a) |-> (a[i] + b[i]) % 2])

\* crc = (crc >> 1) ^ (crc & 1 ? poly : 0), k times
RECURSIVE CrcShift(_, _)
CrcShift(c, k) ==
  IF k = 0 THEN c
  ELSE LET Step(x) == IF x[1] = 1 THEN Xor(Tail(x) \o <<0>>, CrcPoly)
                      ELSE Tail(x) \o <<0>>
       IN CHOOSE r \in { CrcShift(y, k - 1) : y \in { Step(c) } } : TRUE

\* the register c after the bytes i..j of data
RECURSIVE CrcRun(_, _, _, _)
CrcRun(c, data, i, j) ==
  IF i > j THEN c
  ELSE IF i = j
  THEN CrcShift(Xor(c, BitsLSB(data[i], 8) \o Rep(0, 24)), 8)
  ELSE CHOOSE r \in
         { CrcRun(y, data, (i + j) \div 2 + 1, j) :
             y \in { CrcRun(c, data, i, (i + j) \div 2) } } : TRUE

\* crc32(0, data, len) as 4 bytes, least significant first
crc32(data) ==
  BitsToBytes(Xor(CrcRun(Rep(1, 32), data, 1, Len(data)), Rep(1, 32)))

(***************************************************************************)
(* deflate, as deflateInit2(level 9, windowBits 31, memLevel 9) and one    *)
(* deflate(Z_FINISH) with all of the input make it: the matches of         *)
(* deflate_slow (lazy matching), coded in one final block that is stored,  *)
(* or coded with the static trees, or with trees built for it, whichever   *)
(* _tr_flush_block finds the shortest.  The contents are under 1024 bytes: *)
(* they fit the window and one block, and every earlier position is within *)
(* reach of a match.                                                       *)
(***************************************************************************)
\* base length and extra bits of the length codes 257..285
LBase ==
  << 3, 4, 5, 6, 7, 8, 9, 10, 11, 13, 15, 17, 19, 23, 27, 31, 35, 43, 51,
     59, 67, 83, 99, 115, 131, 163, 195, 227, 258 >>

LExtra ==
  << 0, 0, 0, 0, 0, 0, 0, 0, 1, 1, 1, 1, 2, 2, 2, 2, 3, 3, 3, 3, 4, 4, 4,
     4, 5, 5, 5, 5, 0 >>

\* base distance and extra bits of the distance codes 0..29
DBase ==
  << 1, 2, 3, 4, 5, 7, 9, 13, 17, 25, 33, 49, 65, 97, 129, 193, 257, 385,
     513, 769, 1025, 1537, 2049, 3073, 4097, 6145, 8193, 12289, 16385,
     24577 >>

DExtra ==
  << 0, 0, 0, 0, 1, 1, 2, 2, 3, 3, 4, 4, 5, 5, 6, 6, 7, 7, 8, 8, 9, 9, 10,
     10, 11, 11, 12, 12, 13, 13 >>

\* extra bits of the code length codes 0..18
BlExtra == << 0, 0, 0, 0, 0, 0, 0, 0, 0, 0, 0, 0, 0, 0, 0, 0, 2, 3, 7 >>

\* the order in which a block gives the lengths of the code length codes
bl_order ==
  << 16, 17, 18, 0, 8, 7, 9, 6, 10, 5, 11, 4, 12, 3, 13, 2, 14, 1, 15 >>

\* the index of the last base that is not above v
CodeOf(base, v) ==
  CHOOSE i \in 1..Len(base) :
    base[i] <= v /\ (i = Len(base) \/ base[i + 1] > v)

\* what deflate_slow tallies: a literal (len 0) or a match
Lit(b) == [len |-> 0, dist |-> 0, lit |-> b]

Match(len, dist) == [len |-> len, dist |-> dist, lit |-> 0]

\* the literal/length symbol and the distance symbol of a tallied one
LSym(t) == IF t.len = 0 THEN t.lit ELSE 256 + CodeOf(LBase, t.len)

DSym(t) == CodeOf(DBase, t.dist) - 1

(* Matching *)
\* the byte at offset i of the window (offsets from 0): the input, and
\* after it the zeros zlib initialises the window with
Window(data, i) == IF i < Len(data) THEN data[i + 1] ELSE 0

\* the first offset from lo on at which the bytes at q and at p differ, hi
\* if there is none below hi
RECURSIVE MatchLen(_, _, _, _, _)
MatchLen(data, q, p, lo, hi) ==
  LET mid == (lo + hi) \div 2
      Rest(m) == IF m < mid THEN m ELSE MatchLen(data, q, p, mid, hi)
  IN IF lo >= hi THEN lo
     ELSE IF hi = lo + 1
     THEN IF Window(data, q + lo) = Window(data, p + lo) THEN hi ELSE lo
     ELSE CHOOSE r \in
            { Rest(m) : m \in { MatchLen(data, q, p, lo, mid) } } : TRUE

\* one candidate of longest_match at strstart p: s.q, the next position
\* down the hash chain.  It replaces the best match only if it is longer
\* (it is not looked at unless it agrees at the start and where the best
\* match ends), and the scan is done at a match of nice_match bytes (258,
\* or the lookahead if less)
LongestPass(data, p, s) ==
  LET Scan(l) ==
        IF l <= s.best.len THEN [s EXCEPT !.q = s.q - 1]
        ELSE [q    |-> s.q - 1,
              best |-> [len |-> l, start |-> s.q],
              done |-> l >= Min(258, Len(data) - p)]
  IN IF \/ Window(data, s.q) # Window(data, p)
        \/ Window(data, s.q + s.best.len) # Window(data, p + s.best.len)
     THEN [s EXCEPT !.q = s.q - 1]
     ELSE CHOOSE r \in
            { Scan(l) : l \in { MatchLen(data, s.q, p, 0, 258) } } : TRUE

\* at most n candidates: the hash chain runs from the latest earlier
\* position down to position 1 (position 0 is NIL and ends the chain)
RECURSIVE longest_match(_, _, _, _)
longest_match(data, p, s, n) ==
  IF s.done \/ s.q < 1 \/ n = 0 THEN s
  ELSE IF n = 1 THEN LongestPass(data, p, s)
  ELSE CHOOSE r \in
         { longest_match(data, p, s1, n - n \div 2) :
             s1 \in { longest_match(data, p, s, n \div 2) } } : TRUE

\* match_length and match_start at strstart p, prev being those of the
\* position before: a string of MIN_MATCH bytes is there to insert, the
\* match before is shorter than max_lazy_match = 258, the match found is
\* cut to the lookahead, and a match of 3 bytes further back than TOO_FAR
\* is dropped
MatchAt(data, p, prev) ==
  LET n == Len(data)
      Cut(f) ==
        IF f.len <= prev.len THEN [len |-> 2, start |-> prev.start]
        ELSE IF Min(f.len, n - p) = 3 /\ p - f.start > 4096
        THEN [len |-> 2, start |-> f.start]
        ELSE [len |-> Min(f.len, n - p), start |-> f.start]
  IN IF p <= n - 3 /\ prev.len < 258
     THEN CHOOSE r \in
            { Cut(s.best) :
                s \in { longest_match(data, p,
                                      [q |-> p - 1, best |-> prev,
                                       done |-> FALSE], p - 1) } } : TRUE
     ELSE [len |-> 2, start |-> prev.start]

\* one pass of the loop of deflate_slow at strstart s.p: s.prev is the
\* match found at s.p - 1, s.avail says the byte at s.p - 1 is still to be
\* tallied
SlowPass(data, s) ==
  LET Go(cur) ==
        IF s.prev.len >= 3 /\ cur.len <= s.prev.len THEN
          [p     |-> s.p + s.prev.len - 1,
           prev  |-> [len |-> 2, start |-> cur.start],
           avail |-> FALSE,
           toks  |-> Append(s.toks, Match(s.prev.len, s.p - 1 - s.prev.start))]
        ELSE
          [p     |-> s.p + 1,
           prev  |-> cur,
           avail |-> TRUE,
           toks  |-> IF s.avail THEN Append(s.toks, Lit(data[s.p]))
                     ELSE s.toks]
  IN CHOOSE r \in { Go(cur) : cur \in { MatchAt(data, s.p, s.prev) } } : TRUE

\* at most n passes, up to the end of the input
RECURSIVE SlowRun(_, _, _)
SlowRun(data, s, n) ==
  IF s.p >= Len(data) \/ n = 0 THEN s
  ELSE IF n = 1 THEN SlowPass(data, s)
  ELSE CHOOSE r \in
         { SlowRun(data, s1, n - n \div 2) :
             s1 \in { SlowRun(data, s, n \div 2) } } : TRUE

\* what deflate_slow tallies for data, the last literal flushed
deflate_slow(data) ==
  LET End(s) == IF s.avail THEN Append(s.toks, Lit(data[s.p])) ELSE s.toks
  IN CHOOSE r \in
       { End(s) :
           s \in { SlowRun(data, [p |-> 0, prev |-> [len |-> 2, start |-> 0],
                                  avail |-> FALSE, toks |-> <<>>],
                           Len(data)) } } : TRUE

(* Huffman trees.  A tree under construction holds, for the nodes 0 ..    *)
(* 2 * elems (a node n at index n + 1), freq, depth and dad, the heap, the *)
(* nodes taken off the heap (order, the last one first) and the next node  *)
(* to make.                                                                *)
\* smaller(tree, n, m, depth)
smaller(t, n, m) ==
  \/ t.freq[n + 1] < t.freq[m + 1]
  \/ t.freq[n + 1] = t.freq[m + 1] /\ t.depth[n + 1] <= t.depth[m + 1]

\* pqdownheap: the node v goes down the heap from slot k
RECURSIVE pqdownheap(_, _, _, _)
pqdownheap(t, hp, v, k) ==
  LET j == IF 2 * k < Len(hp) /\ smaller(t, hp[2 * k + 1], hp[2 * k])
           THEN 2 * k + 1 ELSE 2 * k
  IN IF 2 * k > Len(hp) THEN [hp EXCEPT ![k] = v]
     ELSE IF smaller(t, v, hp[j]) THEN [hp EXCEPT ![k] = v]
     ELSE pqdownheap(t, [hp EXCEPT ![k] = hp[j]], v, j)

\* pqdownheap for the slots hi down to lo
RECURSIVE Heapify(_, _, _, _)
Heapify(t, hp, hi, lo) ==
  IF hi < lo THEN hp
  ELSE IF hi = lo THEN pqdownheap(t, hp, hp[hi], hi)
  ELSE CHOOSE r \in
         { Heapify(t, h1, (hi + lo) \div 2, lo) :
             h1 \in { Heapify(t, hp, hi, (hi + lo) \div 2 + 1) } } : TRUE

\* one pass of the loop of build_tree: the two nodes of least frequency
\* leave the heap and a node that joins them enters it
TreePass(t) ==
  LET n    == t.heap[1]
      Join2(h1) ==
        LET m  == h1[1]
            t2 == [freq  |-> [t.freq EXCEPT ![t.node + 1] =
                                t.freq[n + 1] + t.freq[m + 1]],
                   depth |-> [t.depth EXCEPT ![t.node + 1] =
                                (IF t.depth[n + 1] >= t.depth[m + 1]
                                 THEN t.depth[n + 1] ELSE t.depth[m + 1]) + 1],
                   dad   |-> [t.dad EXCEPT ![n + 1] = t.node,
                                           ![m + 1] = t.node],
                   heap  |-> h1,
                   order |-> <<m, n>> \o t.order,
                   node  |-> t.node + 1]
        IN [t2 EXCEPT !.heap = pqdownheap(t2, h1, t.node, 1)]
  IN CHOOSE r \in
       { Join2(h1) :
           h1 \in { pqdownheap(t, SubSeq(t.heap, 1, Len(t.heap) - 1),
                               t.heap[Len(t.heap)], 1) } } : TRUE

\* n passes
RECURSIVE TreeRun(_, _)
TreeRun(t, n) ==
  IF n = 0 THEN t
  ELSE IF n = 1 THEN TreePass(t)
  ELSE CHOOSE r \in
         { TreeRun(t1, n - n \div 2) : t1 \in { TreeRun(t, n \div 2) } } : TRUE

\* how far the node n is below the root
RECURSIVE TreeDepth(_, _, _)
TreeDepth(t, root, n) ==
  IF n = root THEN 0 ELSE TreeDepth(t, root, t.dad[n + 1]) + 1

\* gen_bitlen when code lengths overflow: a leaf moves one level down and
\* two of the overflowing ones take its place, until none overflows
RECURSIVE BlAdjust(_, _, _)
BlAdjust(count, overflow, max_length) ==
  IF overflow <= 0 THEN count
  ELSE LET bits == CHOOSE b \in 1..(max_length - 1) :
                     count[b] # 0
                     /\ \A c \in (b + 1)..(max_length - 1) : count[c] = 0
       IN BlAdjust([[[count EXCEPT ![bits] = @ - 1]
                            EXCEPT ![bits + 1] = @ + 2]
                            EXCEPT ![max_length] = @ - 1],
                   overflow - 2, max_length)

\* the first code of length b (next_code of gen_codes)
RECURSIVE NextCode(_, _)
NextCode(count, b) ==
  IF b = 1 THEN 0 ELSE 2 * (NextCode(count, b - 1) + count[b - 1])

\* gen_codes: the codes of the symbols from their lengths, a symbol s at
\* index s + 1
gen_codes(lens) ==
  LET count == Tuple([b \in 1..15 |->
                        Cardinality({s \in 1..Len(lens) : lens[s] = b})])
      next  == Tuple([b \in 1..15 |-> NextCode(count, b)])
  IN [len  |-> lens,
      code |-> Tuple([s \in 1..Len(lens) |->
                        IF lens[s] = 0 THEN 0
                        ELSE next[lens[s]]
                               + Cardinality({m \in 1..(s - 1) :
                                                lens[m] = lens[s]})])]

\* the sum of the numbers s[i..j]
RECURSIVE SumSeq(_, _, _)
SumSeq(s, i, j) ==
  IF i > j THEN 0
  ELSE IF i = j THEN s[i]
  ELSE SumSeq(s, i, (i + j) \div 2) + SumSeq(s, (i + j) \div 2 + 1, j)

\* how many codes are longer than b bits, count[c] being those of c bits
RECURSIVE LeavesAbove(_, _)
LeavesAbove(count, b) ==
  IF b >= Len(count) THEN 0 ELSE count[b + 1] + LeavesAbove(count, b + 1)

\* gen_bitlen for the tree t that build_tree made over the symbols up to
\* max_code: the length of a leaf is how far it is below the root, cut to
\* max_length; if lengths were cut, the leaves get the lengths of the
\* adjusted counts, the first leaf off the heap the longest.  With the
\* lengths, what the tree adds to opt_len and, if it has a static tree, to
\* static_len (the symbols that build_tree forced in do not count)
gen_bitlen(t, elems, max_code, forced, stlen, extra, base, max_length) ==
  LET root   == t.order[1]
      IsLeaf(n) == n <= max_code
      leaves == SelectSeq([i \in 1..Len(t.order) |->
                             t.order[Len(t.order) + 1 - i]], IsLeaf)
      len0   == Tuple([i \in 1..Len(leaves) |->
                         Min(max_length, TreeDepth(t, root, leaves[i]))])
      overflow ==
        Cardinality({i \in 1..Len(t.order) :
                       TreeDepth(t, root, t.order[i]) > max_length})
      count  == BlAdjust(Tuple([b \in 1..max_length |->
                                  Cardinality({i \in 1..Len(leaves) :
                                                 len0[i] = b})]),
                         overflow, max_length)
      len1   == IF overflow = 0 THEN len0
                ELSE Tuple([i \in 1..Len(leaves) |->
                              CHOOSE b \in 1..max_length :
                                /\ LeavesAbove(count, b) < i
                                /\ i <= LeavesAbove(count, b) + count[b]])
      LenOf(n) == IF \E i \in 1..Len(leaves) : leaves[i] = n
                  THEN len1[CHOOSE i \in 1..Len(leaves) : leaves[i] = n]
                  ELSE 0
      XBits(n) == IF n >= base THEN extra[n - base + 1] ELSE 0
      StLen(n) == stlen[n + 1]
      Opt(i)    == t.freq[leaves[i] + 1] * (len1[i] + XBits(leaves[i]))
      Static(i) == t.freq[leaves[i] + 1]
                     * (StLen(leaves[i]) + XBits(leaves[i]))
  IN [len      |-> Tuple([n \in 1..elems |-> LenOf(n - 1)]),
      max_code |-> max_code,
      opt      |-> SumSeq(Tuple([i \in 1..Len(leaves) |-> Opt(i)]),
                          1, Len(leaves)) - Len(forced),
      static   |-> IF stlen = <<>> THEN 0               \* if (stree)
                   ELSE SumSeq(Tuple([i \in 1..Len(leaves) |-> Static(i)]),
                               1, Len(leaves))
                          - SumSeq(Tuple([i \in 1..Len(forced) |->
                                            StLen(forced[i])]),
                                   1, Len(forced))]

\* build_tree for the frequencies freq of the symbols 0 .. elems - 1 (a
\* symbol s at index s + 1), with the static lengths stlen (<<>> if there
\* are none), the extra bits of the symbols from base on and the longest
\* length allowed.  There are two codes at least: symbols of frequency 1
\* are forced in when fewer are used
build_tree(freq, stlen, extra, base, max_length) ==
  LET elems  == Len(freq)
      IsUsed(n) == freq[n + 1] # 0
      used   == SelectSeq([n \in 1..elems |-> n - 1], IsUsed)
      top   == IF used = <<>> THEN -1 ELSE used[Len(used)]
      forced == IF Len(used) >= 2 THEN <<>>
                ELSE IF Len(used) = 0 THEN <<0, 1>>
                ELSE IF top < 2 THEN <<top + 1>>
                ELSE <<0>>
      IsForced(n) == \E i \in 1..Len(forced) : forced[i] = n
      max_code == IF forced # <<>> /\ top < 2 THEN forced[Len(forced)]
                  ELSE top
      t0 == [freq  |-> Tuple([n \in 1..(2 * elems + 1) |->
                                IF n > elems THEN 0
                                ELSE IF IsForced(n - 1) THEN 1
                                ELSE freq[n]]),
             depth |-> Tuple([n \in 1..(2 * elems + 1) |-> 0]),
             dad   |-> Tuple([n \in 1..(2 * elems + 1) |-> 0]),
             heap  |-> used \o forced,
             order |-> <<>>,
             node  |-> elems]
      Built(t) ==
        gen_bitlen([t EXCEPT !.order = <<t.heap[1]>> \o t.order], elems,
                   max_code, forced, stlen, extra, base, max_length)
  IN CHOOSE r \in
       { Built(t) :
           t \in { TreeRun([t0 EXCEPT !.heap =
                              Heapify(t0, t0.heap, Len(t0.heap) \div 2, 1)],
                           Len(t0.heap) - 1) } } : TRUE

\* the static trees: the lengths 8, 9, 7, 8 of the literal/length symbols
\* 0..287, and 5 for each of the 30 distances
static_ltree ==
  gen_codes(Tuple([s \in 1..288 |->
                     IF s <= 144 THEN 8 ELSE IF s <= 256 THEN 9
                     ELSE IF s <= 280 THEN 7 ELSE 8]))

static_dtree == gen_codes(Tuple([s \in 1..30 |-> 5]))

(* Coding *)
\* send_code: the code of the symbol s in the tree, first bit first
send_code(s, tree) == BitsMSB(tree.code[s + 1], tree.len[s + 1])

\* the bits of one tallied symbol
TokenBits(t, ltree, dtree) ==
  IF t.len = 0 THEN send_code(t.lit, ltree)
  ELSE LET lc == CodeOf(LBase, t.len)
           dc == CodeOf(DBase, t.dist)
       IN send_code(256 + lc, ltree)
            \o BitsLSB(t.len - LBase[lc], LExtra[lc])
            \o send_code(dc - 1, dtree)
            \o BitsLSB(t.dist - DBase[dc], DExtra[dc])

\* the bits of the tallied symbols i..j
RECURSIVE AllTokenBits(_, _, _, _, _)
AllTokenBits(toks, ltree, dtree, i, j) ==
  IF i > j THEN <<>>
  ELSE IF i = j THEN TokenBits(toks[i], ltree, dtree)
  ELSE AllTokenBits(toks, ltree, dtree, i, (i + j) \div 2)
         \o AllTokenBits(toks, ltree, dtree, (i + j) \div 2 + 1, j)

\* compress_block: the tallied symbols, then END_BLOCK
compress_block(toks, ltree, dtree) ==
  AllTokenBits(toks, ltree, dtree, 1, Len(toks)) \o send_code(256, ltree)

\* the frequencies freq with the symbols syms[i..j] counted in
RECURSIVE Tally(_, _, _, _)
Tally(freq, syms, i, j) ==
  IF i > j THEN freq
  ELSE IF i = j THEN [freq EXCEPT ![syms[i] + 1] = @ + 1]
  ELSE CHOOSE r \in
         { Tally(f1, syms, (i + j) \div 2 + 1, j) :
             f1 \in { Tally(freq, syms, i, (i + j) \div 2) } } : TRUE

\* one pass of the loop of scan_tree and send_tree over the lengths of the
\* symbols up to max_code: a run of equal lengths ends at s.n when the next
\* length differs or the run is as long as a repeat code can say; it is
\* then given as the length itself (short runs), as the length and a
\* repeat of it (code 16), or as a run of zeros (codes 17, 18).  An item is
\* a code length symbol with its extra bits
ScanPass(lens, max_code, s) ==
  LET curlen  == lens[s.n + 1]
      nextlen == IF s.n = max_code THEN 65535 ELSE lens[s.n + 2]
      count   == s.count + 1
      Item(sym, extra, nbits) == [sym |-> sym, extra |-> extra, nbits |-> nbits]
      items   ==
        IF count < s.min_count THEN Tuple([i \in 1..count |-> Item(curlen, 0, 0)])
        ELSE IF curlen # 0 THEN
          IF curlen # s.prevlen
          THEN << Item(curlen, 0, 0), Item(16, count - 4, 2) >>
          ELSE << Item(16, count - 3, 2) >>
        ELSE IF count <= 10 THEN << Item(17, count - 3, 3) >>
        ELSE << Item(18, count - 11, 7) >>
  IN IF count < s.max_count /\ curlen = nextlen
     THEN [s EXCEPT !.n = s.n + 1, !.count = count]
     ELSE [n         |-> s.n + 1,
           prevlen   |-> curlen,
           count     |-> 0,
           max_count |-> IF nextlen = 0 THEN 138
                         ELSE IF curlen = nextlen THEN 6 ELSE 7,
           min_count |-> IF nextlen = 0 \/ curlen = nextlen THEN 3 ELSE 4,
           items     |-> s.items \o items]

\* k passes
RECURSIVE ScanRun(_, _, _, _)
ScanRun(lens, max_code, s, k) ==
  IF k = 0 THEN s
  ELSE IF k = 1 THEN ScanPass(lens, max_code, s)
  ELSE CHOOSE r \in
         { ScanRun(lens, max_code, s1, k - k \div 2) :
             s1 \in { ScanRun(lens, max_code, s, k \div 2) } } : TRUE

\* scan_tree: the items that give the lengths of the symbols 0 .. max_code
scan_tree(lens, max_code) ==
  ScanRun(lens, max_code,
          [n |-> 0, prevlen |-> -1, count |-> 0,
           max_count |-> IF lens[1] = 0 THEN 138 ELSE 7,
           min_count |-> IF lens[1] = 0 THEN 3 ELSE 4,
           items |-> <<>>],
          max_code + 1).items

\* send_tree: the bits of the items i..j in the code bl_tree
RECURSIVE send_tree(_, _, _, _)
send_tree(items, bl_tree, i, j) ==
  IF i > j THEN <<>>
  ELSE IF i = j
  THEN send_code(items[i].sym, bl_tree) \o BitsLSB(items[i].extra, items[i].nbits)
  ELSE send_tree(items, bl_tree, i, (i + j) \div 2)
         \o send_tree(items, bl_tree, (i + j) \div 2 + 1, j)

\* _tr_flush_block for the one, final block of data, whose tallied symbols
\* are toks.  The trees of the block are built, and the code length tree
\* for their lengths (build_bl_tree, blcodes of whose lengths are given);
\* the block is stored (3 header bits,
\* padding, LEN, NLEN, the bytes) if that is no longer than the shorter of
\* the two codings, counted in whole bytes; else coded with the static
\* trees if the trees of the block do not make it shorter; else it gives
\* its trees (send_all_trees) and is coded with them
_tr_flush_block(data, toks) ==
  LET lsyms == Tuple([i \in 1..Len(toks) |-> LSym(toks[i])]) \o <<256>>
      IsMatch(t) == t.len # 0
      matches == SelectSeq(toks, IsMatch)
      dsyms == Tuple([i \in 1..Len(matches) |-> DSym(matches[i])])
      Flush(lt, dt) ==
        LET litems == scan_tree(lt.len, lt.max_code)
            ditems == scan_tree(dt.len, dt.max_code)
            items  == litems \o ditems
            bsyms  == Tuple([i \in 1..Len(items) |-> items[i].sym])
            Chosen(bt) ==
              LET blcodes ==
                    CHOOSE k \in 3..19 :
                      /\ k = 3 \/ bt.len[bl_order[k] + 1] # 0
                      /\ \A m \in (k + 1)..19 : bt.len[bl_order[m] + 1] = 0
                  opt_len     == lt.opt + dt.opt + bt.opt
                                   + 3 * blcodes + 14
                  static_len  == lt.static + dt.static
                  static_lenb == (static_len + 3 + 7) \div 8
                  opt_lenb    == IF static_lenb <= (opt_len + 3 + 7) \div 8
                                 THEN static_lenb
                                 ELSE (opt_len + 3 + 7) \div 8
                  bl_tree     == gen_codes(bt.len)
              IN IF Len(data) + 4 <= opt_lenb
                 THEN <<1, Len(data) % 256, Len(data) \div 256,
                        255 - (Len(data) % 256), 255 - (Len(data) \div 256)>>
                        \o data
                 ELSE IF static_lenb = opt_lenb
                 THEN BitsToBytes(<<1, 1, 0>>
                        \o compress_block(toks, static_ltree, static_dtree))
                 ELSE BitsToBytes(<<1, 0, 1>>
                        \o BitsLSB(lt.max_code + 1 - 257, 5)
                        \o BitsLSB(dt.max_code + 1 - 1, 5)
                        \o BitsLSB(blcodes - 4, 4)
                        \o Tuple([i \in 1..(3 * blcodes) |->
                                   BitsLSB(bt.len[bl_order[(i + 2) \div 3] + 1],
                                           3)[((i - 1) % 3) + 1]])
                        \o send_tree(items, bl_tree, 1, Len(items))
                        \o compress_block(toks, gen_codes(lt.len),
                                          gen_codes(dt.len)))
        IN CHOOSE r \in
             { Chosen(bt) :
                 bt \in { build_tree(Tally(Tuple([s \in 1..19 |-> 0]), bsyms,
                                           1, Len(bsyms)),
                                     <<>>, BlExtra, 0, 7) } } : TRUE
  IN CHOOSE r \in
       { Flush(lt, dt) :
           lt \in { build_tree(Tally(Tuple([s \in 1..286 |-> 0]), lsyms,
                                     1, Len(lsyms)),
                               static_ltree.len, LExtra, 257, 15) },
           dt \in { build_tree(Tally(Tuple([s \in 1..30 |-> 0]), dsyms,
                                     1, Len(dsyms)),
                               static_dtree.len, DExtra, 0, 15) } } : TRUE

\* the one block deflate makes of data
DeflateBlock(data) ==
  CHOOSE r \in
    { _tr_flush_block(data, toks) : toks \in { deflate_slow(data) } } : TRUE

\* the gzip header deflate writes: magic, method 8, no flags, no time,
\* XFL 2 (level 9), OS 3 (Unix)
GzHeader == <<31, 139, 8, 0, 0, 0, 0, 0, 2, 3>>

\* the gzip trailer: CRC-32 and length of the content
GzTrailer(data) == crc32(data) \o LE32(Len(data))

\* the complete gzip stream deflate makes of data
Gzip(data) == GzHeader \o DeflateBlock(data) \o GzTrailer(data)

\* deflate(&zstr, Z_FINISH) with avail_in = all of data and avail_out = cap:
\* it writes as much of the stream as fits and says Z_OK when more is pending
deflate(data, cap) ==
  LET Out(full) ==
        IF cap = 0 THEN [err |-> "Z_BUF_ERROR", out |-> <<>>, total_out |-> 0]
        ELSE IF Len(full) <= cap
        THEN [err |-> "Z_STREAM_END", out |-> full, total_out |-> Len(full)]
        ELSE [err |-> "Z_OK", out |-> Take(full, cap), total_out |-> cap]
  IN CHOOSE r \in { Out(full) : full \in { Gzip(data) } } : TRUE

(***************************************************************************)
(* inflate, as inflateInit2(windowBits 31) and one inflate(Z_NO_FLUSH)     *)
(* with all of the input make it: the gzip header, the deflate blocks      *)
(* (stored, fixed codes, dynamic codes), the trailer.  It decodes as far   *)
(* as the input and the room for output go, and stops at the first error.  *)
(* The state of a decoding is the mode of inflate ("TYPE" before a block,  *)
(* "LEN" within the codes of one, "CHECK" at the trailer, "DONE", "BAD"),  *)
(* leave (it returns for lack of input or of room), the bits read (pos),   *)
(* the output, whether the block is the last one, and the codes in use.    *)
(***************************************************************************)
\* the number whose bits, most significant first, are bits
RECURSIVE NumMSB(_)
NumMSB(bits) ==
  IF bits = <<>> THEN 0
  ELSE 2^(Len(bits) - 1) * Head(bits) + NumMSB(Tail(bits))

\* the end of the NUL-terminated string of z that starts after byte i, or 0
\* if z ends before a NUL
ZeroAfter(z, i) ==
  IF \E k \in (i + 1)..Len(z) : z[k] = 0
  THEN CHOOSE k \in (i + 1)..Len(z) :
         z[k] = 0 /\ \A m \in (i + 1)..(k - 1) : z[m] # 0
  ELSE 0

\* the gzip header of z: st "run" and the number of bytes it takes, or
\* "stop" (z ends within it) or "data" (not a gzip header).  The optional
\* fields follow the 10 fixed bytes as the flag byte says: FEXTRA 4,
\* FNAME 8, FCOMMENT 16, FHCRC 2
InflateHeader(z) ==
  LET flg    == z[4]
      Has(f) == (flg \div f) % 2 = 1
      Hcrc(i) ==
        IF ~Has(2) THEN [st |-> "run", n |-> i]
        ELSE IF Len(z) < i + 2 THEN [st |-> "stop", n |-> 0]
        ELSE IF SubSeq(z, i + 1, i + 2) # SubSeq(crc32(Take(z, i)), 1, 2)
        THEN [st |-> "data", n |-> 0]
        ELSE [st |-> "run", n |-> i + 2]
      Comment(i) ==
        IF ~Has(16) THEN Hcrc(i)
        ELSE IF ZeroAfter(z, i) = 0 THEN [st |-> "stop", n |-> 0]
        ELSE Hcrc(ZeroAfter(z, i))
      Name(i) ==
        IF ~Has(8) THEN Comment(i)
        ELSE IF ZeroAfter(z, i) = 0 THEN [st |-> "stop", n |-> 0]
        ELSE Comment(ZeroAfter(z, i))
      Extra(i) ==
        IF ~Has(4) THEN Name(i)
        ELSE IF Len(z) < i + 2 THEN [st |-> "stop", n |-> 0]
        ELSE IF Len(z) < i + 2 + z[i + 1] + 256 * z[i + 2]
        THEN [st |-> "stop", n |-> 0]
        ELSE Name(i + 2 + z[i + 1] + 256 * z[i + 2])
  IN IF Len(z) < 2 THEN [st |-> "stop", n |-> 0]
     ELSE IF z[1] # 31 \/ z[2] # 139 THEN [st |-> "data", n |-> 0]
     ELSE IF Len(z) < 4 THEN [st |-> "stop", n |-> 0]
     ELSE IF z[3] # 8 \/ flg >= 32 THEN [st |-> "data", n |-> 0]
     ELSE IF Len(z) < 10 THEN [st |-> "stop", n |-> 0]
     ELSE Extra(10)

\* the symbols that have a code, in the order of their codes: by length,
\* then by number
RECURSIVE SymbolsByLen(_, _)
SymbolsByLen(lens, l) ==
  LET Is(s) == lens[s + 1] = l IN
  IF l > 15 THEN <<>>
  ELSE SelectSeq([i \in 1..Len(lens) |-> i - 1], Is) \o SymbolsByLen(lens, l + 1)

\* the codes left unused by the lengths from l on, when left are unused at
\* length l - 1; -1 if the lengths ask for more codes than there are
RECURSIVE HuffLeft(_, _, _)
HuffLeft(count, l, left) ==
  IF l > 15 THEN left
  ELSE IF 2 * left < count[l] THEN -1
  ELSE HuffLeft(count, l + 1, 2 * left - count[l])

\* inflate_table(type, lens) for the code lengths lens of the symbols 0,
\* 1, ... (0 for a symbol without code): the number of codes of each
\* length, the symbols in the order of their codes, the longest length,
\* and its verdict ok.  No code at all is let through, an over-subscribed
\* set never, an incomplete one only as a single code of one bit and not
\* for the code lengths' own code ("CODES")
inflate_table(type, lens) ==
  LET count == [l \in 1..15 |-> Cardinality({i \in 1..Len(lens) : lens[i] = l})]
      max   == IF \A l \in 1..15 : count[l] = 0 THEN 0
               ELSE CHOOSE l \in 1..15 :
                      count[l] # 0 /\ \A m \in (l + 1)..15 : count[m] = 0
      left  == HuffLeft(count, 1, 1)
  IN [ok     |-> \/ max = 0
                 \/ left = 0
                 \/ left > 0 /\ type # "CODES" /\ max = 1,
      count  |-> Tuple(count),
      symbol |-> SymbolsByLen(lens, 1),
      max    |-> max]

\* the symbol of the code h at pos and the bits it takes, bit by bit from
\* length l on; n = 0 if the input ends within the code, sym = -1 for a bit
\* that is no code (h incomplete or empty)
RECURSIVE HuffDecode(_, _, _, _, _, _, _)
HuffDecode(h, bits, pos, l, code, first, index) ==
  LET c == code + bits[pos + l] IN
  IF pos + l > Len(bits) THEN [sym |-> 0, n |-> 0]
  ELSE IF c - h.count[l] < first
  THEN [sym |-> h.symbol[index + (c - first) + 1], n |-> l]
  ELSE IF l >= h.max THEN [sym |-> -1, n |-> 1]
  ELSE HuffDecode(h, bits, pos, l + 1, 2 * c, 2 * (first + h.count[l]),
                  index + h.count[l])

\* fixedtables: the codes of a block of type 1, for the literal/length
\* symbols 0..287 and the distance symbols 0..31
lenfix == inflate_table("LENS", static_ltree.len)

distfix == inflate_table("DISTS", Tuple([s \in 1..32 |-> 5]))

\* the state with the mode m, or leaving, at the same place
Mode(s, m) == [s EXCEPT !.mode = m]

Leave(s) == [s EXCEPT !.leave = TRUE]

\* the copy of a match of len bytes from dist back, as far as the room for
\* output goes: what is copied repeats the last dist bytes
CopyMatch(wr, dist, len, cap) ==
  wr \o Tuple([i \in 1..Min(len, cap - Len(wr)) |->
                 wr[Len(wr) - dist + 1 + ((i - 1) % dist)]])

\* a length symbol at pos (after its code): the extra bits of the length,
\* the distance code and its extra bits, then the copy, which looks at the
\* distance only once there is room for a byte
InflateMatch(bits, s, pos, cap, sym) ==
  LET lc   == sym - 256
      p1   == pos + LExtra[lc]
      len  == LBase[lc] + NumLSB(SubSeq(bits, pos + 1, p1))
      Dist(d) ==
        LET dc   == d.sym + 1
            p2   == p1 + d.n + DExtra[dc]
            dist == DBase[dc] + NumLSB(SubSeq(bits, p1 + d.n + 1, p2))
        IN IF d.n = 0 THEN Leave(s)
           ELSE IF d.sym < 0 \/ d.sym > 29 THEN Mode(s, "BAD")
           ELSE IF p2 > Len(bits) THEN Leave(s)
           ELSE IF Len(s.out) >= cap THEN Leave(s)
           ELSE IF dist > Len(s.out) THEN Mode(s, "BAD")
           ELSE [s EXCEPT !.pos = p2,
                          !.out = CopyMatch(s.out, dist, len, cap),
                          !.leave = Len(s.out) + len > cap]
  IN IF p1 > Len(bits) THEN Leave(s)
     ELSE CHOOSE r \in
            { Dist(d) : d \in { HuffDecode(s.dh, bits, p1, 1, 0, 0, 0) } }
            : TRUE

\* one symbol of a block ("LEN"): a literal, the end of the block, or a
\* match
InflateCodes(bits, s, cap) ==
  LET Sym(c) ==
        IF c.n = 0 THEN Leave(s)
        ELSE IF c.sym < 0 \/ c.sym > 285 THEN Mode(s, "BAD")
        ELSE IF c.sym < 256 THEN
          IF Len(s.out) >= cap THEN Leave(s)
          ELSE [s EXCEPT !.pos = s.pos + c.n, !.out = Append(s.out, c.sym)]
        ELSE IF c.sym = 256 THEN [s EXCEPT !.pos = s.pos + c.n, !.mode = "TYPE"]
        ELSE InflateMatch(bits, s, s.pos + c.n, cap, c.sym)
  IN CHOOSE r \in
       { Sym(c) : c \in { HuffDecode(s.lh, bits, s.pos, 1, 0, 0, 0) } } : TRUE

\* one code of the code lengths of a dynamic block ("CODELENS"), total
\* lengths being asked for, under the code h: a length below 16, or a
\* repeat of the last one (16), or a run of zeros (17, 18)
LensPass(h, bits, s, total) ==
  LET Sym(c) ==
        LET val   == IF c.sym < 0 THEN 0 ELSE c.sym
            p1    == s.pos + c.n
            extra == IF val = 16 THEN 2 ELSE IF val = 17 THEN 3 ELSE 7
            copy  == (IF val = 18 THEN 11 ELSE 3)
                       + NumLSB(SubSeq(bits, p1 + 1, p1 + extra))
            len   == IF val = 16 THEN s.lens[Len(s.lens)] ELSE 0
        IN IF c.n = 0 THEN [s EXCEPT !.st = "stop"]
           ELSE IF val < 16
           THEN [s EXCEPT !.pos = p1, !.lens = Append(s.lens, val)]
           ELSE IF p1 + extra > Len(bits) THEN [s EXCEPT !.st = "stop"]
           ELSE IF val = 16 /\ s.lens = <<>> THEN [s EXCEPT !.st = "data"]
           ELSE IF Len(s.lens) + copy > total THEN [s EXCEPT !.st = "data"]
           ELSE [s EXCEPT !.pos = p1 + extra,
                          !.lens = s.lens \o Tuple(Rep(len, copy))]
  IN CHOOSE r \in
       { Sym(c) : c \in { HuffDecode(h, bits, s.pos, 1, 0, 0, 0) } } : TRUE

\* at most n codes, up to total lengths
RECURSIVE InflateLens(_, _, _, _, _)
InflateLens(h, bits, s, total, n) ==
  IF s.st # "run" \/ Len(s.lens) >= total \/ n = 0 THEN s
  ELSE IF n = 1 THEN LensPass(h, bits, s, total)
  ELSE CHOOSE r \in
         { InflateLens(h, bits, s1, total, n - n \div 2) :
             s1 \in { InflateLens(h, bits, s, total, n \div 2) } } : TRUE

\* the head of a dynamic block at pos (after its 3 header bits, "TABLE",
\* "LENLENS", "CODELENS"): the numbers of codes, the code lengths' code,
\* the code lengths, and the codes they make
InflateDynamic(bits, s, pos) ==
  LET nlen  == NumLSB(SubSeq(bits, pos + 1, pos + 5)) + 257
      ndist == NumLSB(SubSeq(bits, pos + 6, pos + 10)) + 1
      ncode == NumLSB(SubSeq(bits, pos + 11, pos + 14)) + 4
      p1    == pos + 14 + 3 * ncode
      CodeLen(c) ==
        IF \E k \in 1..ncode : bl_order[k] = c
        THEN LET k == CHOOSE k \in 1..ncode : bl_order[k] = c
             IN NumLSB(SubSeq(bits, pos + 12 + 3 * k, pos + 14 + 3 * k))
        ELSE 0
      Codes(ls) ==
        LET lh == inflate_table("LENS", SubSeq(ls.lens, 1, nlen))
            dh == inflate_table("DISTS", SubSeq(ls.lens, nlen + 1, nlen + ndist))
        IN IF ls.st = "stop" THEN Leave(s)
           ELSE IF ls.st = "data" THEN Mode(s, "BAD")
           ELSE IF ls.lens[257] = 0 \/ ~lh.ok \/ ~dh.ok THEN Mode(s, "BAD")
           ELSE [s EXCEPT !.mode = "LEN", !.pos = ls.pos, !.lh = lh, !.dh = dh]
      Lens(h) ==
        IF ~h.ok THEN Mode(s, "BAD")
        ELSE CHOOSE r \in
               { Codes(ls) :
                   ls \in { InflateLens(h, bits,
                                        [st |-> "run", pos |-> p1, lens |-> <<>>],
                                        nlen + ndist, nlen + ndist) } }
               : TRUE
  IN IF pos + 14 > Len(bits) THEN Leave(s)
     ELSE IF nlen > 286 \/ ndist > 30 THEN Mode(s, "BAD")
     ELSE IF p1 > Len(bits) THEN Leave(s)
     ELSE CHOOSE r \in
            { Lens(h) :
                h \in { inflate_table("CODES",
                                      Tuple([c \in 1..19 |-> CodeLen(c - 1)])) } }
            : TRUE

\* a stored block at pos (after its 3 header bits, "STORED", "COPY"):
\* padding to a byte, LEN and NLEN, then LEN bytes as far as input and room
\* go
InflateStored(bits, s, pos, cap) ==
  LET p0   == 8 * ((pos + 7) \div 8)
      len  == NumLSB(SubSeq(bits, p0 + 1, p0 + 16))
      nlen == NumLSB(SubSeq(bits, p0 + 17, p0 + 32))
      have == (Len(bits) - (p0 + 32)) \div 8
      copy == Min(len, Min(have, cap - Len(s.out)))
      data == BitsToBytes(SubSeq(bits, p0 + 33, p0 + 32 + 8 * copy))
  IN IF p0 + 32 > Len(bits) THEN Leave(s)
     ELSE IF len + nlen # 65535 THEN Mode(s, "BAD")
     ELSE [s EXCEPT !.pos = p0 + 32 + 8 * copy, !.out = s.out \o data,
                    !.leave = copy < len]

\* the head of a block ("TYPE"): after the last block comes the trailer;
\* else 3 bits say whether the block is the last one and of which type
InflateType(bits, s, cap) ==
  LET type == bits[s.pos + 2] + 2 * bits[s.pos + 3]
      s1   == [s EXCEPT !.final = bits[s.pos + 1] = 1]
  IN IF s.final THEN [s EXCEPT !.mode = "CHECK", !.pos = 8 * ((s.pos + 7) \div 8)]
     ELSE IF s.pos + 3 > Len(bits) THEN Leave(s)
     ELSE IF type = 0 THEN InflateStored(bits, s1, s.pos + 3, cap)
     ELSE IF type = 1
     THEN [s1 EXCEPT !.mode = "LEN", !.pos = s.pos + 3,
                     !.lh = lenfix, !.dh = distfix]
     ELSE IF type = 2 THEN InflateDynamic(bits, s1, s.pos + 3)
     ELSE Mode(s1, "BAD")

\* the trailer ("CHECK", "LENGTH"): the CRC-32 of the output, then its
\* length
InflateTrailer(z, s) ==
  LET at == s.pos \div 8 IN
  IF Len(z) < at + 4 THEN Leave(s)
  ELSE IF SubSeq(z, at + 1, at + 4) # crc32(s.out) THEN Mode(s, "BAD")
  ELSE IF Len(z) < at + 8 THEN Leave(s)
  ELSE IF SubSeq(z, at + 5, at + 8) # LE32(Len(s.out)) THEN Mode(s, "BAD")
  ELSE [s EXCEPT !.mode = "DONE", !.pos = 8 * (at + 8)]

\* one pass of the loop of inflate over its modes
InflatePass(z, bits, s, cap) ==
  IF s.mode = "TYPE" THEN InflateType(bits, s, cap)
  ELSE IF s.mode = "LEN" THEN InflateCodes(bits, s, cap)
  ELSE InflateTrailer(z, s)

\* at most n passes, until inflate returns
RECURSIVE InflateRun(_, _, _, _, _)
InflateRun(z, bits, s, cap, n) ==
  IF s.leave \/ s.mode = "DONE" \/ s.mode = "BAD" \/ n = 0 THEN s
  ELSE IF n = 1 THEN InflatePass(z, bits, s, cap)
  ELSE CHOOSE r \in
         { InflateRun(z, bits, s1, cap, n - n \div 2) :
             s1 \in { InflateRun(z, bits, s, cap, n \div 2) } } : TRUE

\* inflate(&zstr, Z_NO_FLUSH) with avail_in = all of z and avail_out = cap.
\* Z_BUF_ERROR is for no progress at all, which is no input at all.
inflate(z, cap) ==
  LET Ret(s) ==
        [err |-> IF s.mode = "DONE" THEN "Z_STREAM_END"
                 ELSE IF s.mode = "BAD" THEN "Z_DATA_ERROR"
                 ELSE IF z = <<>> THEN "Z_BUF_ERROR"
                 ELSE "Z_OK",
         out |-> s.out, avail_out |-> cap - Len(s.out)]
      Start(h) ==
        [mode  |-> IF h.st = "data" THEN "BAD" ELSE "TYPE",
         leave |-> h.st = "stop",
         pos   |-> 8 * h.n, out |-> <<>>, final |-> FALSE,
         lh    |-> lenfix, dh |-> distfix]
  IN CHOOSE r \in
       { Ret(s) :
           s \in { InflateRun(z, BytesToBits(z), Start(h), cap,
                              8 * Len(z) + 2) :
                     h \in { InflateHeader(zz) : zz \in {z} } } } : TRUE

\* what gunzip makes of z: whether z holds a complete, consistent gzip
\* stream, and the content
Gunzip(z) ==
  LET Res(i) == [ok   |-> i.err = "Z_STREAM_END",
                 data |-> IF i.err = "Z_STREAM_END" THEN i.out ELSE <<>>]
  IN CHOOSE r \in { Res(i) : i \in { inflate(z, 1032 * Len(z)) } } : TRUE

\* z is a complete, consistent gzip stream
GzWellFormed(z) == Gunzip(z).ok
(***************************************************************************)
(* Strings and paths.                                                      *)
(***************************************************************************)
\* length of the prefix of s that holds no '/'
RECURSIVE SegLen(_)
SegLen(s) ==
  IF s = <<>> \/ Head(s) = "/" THEN 0
  ELSE CHOOSE r \in { 1 + SegLen(t) : t \in { Tail(s) } } : TRUE

\* the tokens strtok(s, "/") returns, in order (empty tokens are skipped)
RECURSIVE Tokens(_)
Tokens(s) ==
  IF s = <<>> THEN <<>>
  ELSE IF Head(s) = "/"
    THEN CHOOSE r \in { Tokens(t) : t \in { Tail(s) } } : TRUE
  ELSE LET Rest(n) ==
             CHOOSE r \in { <<Take(s, n)>> \o Tokens(t) :
                            t \in { Drop(s, n) } } : TRUE
       IN CHOOSE r \in { Rest(n) : n \in { SegLen(s) } } : TRUE

\* index of the last '/' of s (strrchr), 0 if there is none
RECURSIVE LastSlash(_)
LastSlash(s) ==
  IF s = <<>> THEN 0
  ELSE IF s[Len(s)] = "/" THEN Len(s)
  ELSE CHOOSE r \in { LastSlash(t) : t \in { SubSeq(s, 1, Len(s) - 1) } } :
         TRUE

\* snprintf(buf, sizeof(buf), "%s/%s", a, b); the paths of the model are far
\* shorter than the 512 bytes of buf
PathJoin(a, b) == a \o <<"/">> \o b

(***************************************************************************)
(* The static bundle tree (filebundle_root and its entries).  Entry 0 is   *)
(* NULL.  Two top-level directories "d" and "m"; "d" holds files, an empty *)
(* directory "s" and, after it, a file that is also called "s".            *)
(* A directory entry has no f member of its own: fb_open2 reads f.size and *)
(* f.orig of whatever entry matches the name, and for the empty directory  *)
(* "s" the storage of d = {count 0, child NULL} read through f is a NULL   *)
(* payload of size 0 with orig 0.                                          *)
(***************************************************************************)
ABC == <<97, 98, 99, 10, 100, 101, 102>>     \* "abc\ndef"

A24 == Rep(97, 24)                           \* 24 times 'a'

AB == <<97, 98>>                             \* "ab"

\* the gzip streams the bundle stores: Gzip(AB) and Gzip(<<>>), byte by byte
GzAB ==
  <<31, 139, 8, 0, 0, 0, 0, 0, 2, 3, 75, 76, 2, 0, 109, 72, 131, 158,
    2, 0, 0, 0>>

GzEmpty == <<31, 139, 8, 0, 0, 0, 0, 0, 2, 3, 3, 0, 0, 0, 0, 0, 0, 0, 0, 0>>

DirEntry(name, next, child) ==
  [type |-> "FB_DIR", name |-> name, next |-> next, child |-> child,
   data |-> <<>>, size |-> 0, orig |-> 0]

FileEntry(name, next, data, orig) ==
  [type |-> "FB_FILE", name |-> name, next |-> next, child |-> 0,
   data |-> data, size |-> Len(data), orig |-> orig]

Entries ==
  << DirEntry(<<"d">>, 2, 3),                    \* 1  d/
     DirEntry(<<"m">>, 0, 11),                   \* 2  m/
     FileEntry(<<"f">>, 4, ABC, -1),             \* 3  d/f  stored plain
     FileEntry(<<"g">>, 5, GzAB, 2),             \* 4  d/g  stored gzip
     FileEntry(<<"b">>, 6, A24, -1),             \* 5  d/b  plain, repetitive
     FileEntry(<<"z">>, 7, <<>>, -1),            \* 6  d/z  plain, empty
     FileEntry(<<"c">>, 8, GzAB, 3),             \* 7  d/c  gzip, wrong orig
     DirEntry(<<"s">>, 9, 0),                    \* 8  d/s/ empty directory
     FileEntry(<<"s">>, 10, <<120>>, -1),        \* 9  d/s  file, same name
     FileEntry(<<"y">>, 0, GzEmpty, 0),          \* 10 d/y  gzip of nothing
     FileEntry(<<"f">>, 0, <<98>>, -1) >>        \* 11 m/f

filebundle_root == 1

(***************************************************************************)
(* The filesystem the Direct backend sees.  st_size is what lstat reports  *)
(* when the file is opened; content is what its stream then delivers.  The *)
(* two differ for a file that changes after the lstat (or for a symbolic   *)
(* link, whose lstat size is that of the link).  fopen succeeds on a       *)
(* directory, whose stream delivers nothing.                               *)
(***************************************************************************)
\* a directory: its entries are ".", ".." and the names in it; the order
\* in which readdir returns them is the file system's
OSDir(names) ==
  [kind |-> "dir", content |-> <<>>, st_size |-> 4096,
   entries |-> { <<".">>, <<".", ".">> } \cup { names[i] : i \in 1..Len(names) }]

OSFile(content, st_size) ==
  [kind |-> "file", content |-> content, st_size |-> st_size,
   entries |-> {}]

OSPaths ==
  { <<>>, <<"/", "f">>, <<"/", "t">>, <<"/", "t", "/", "b">>,
    <<"/", "t", "/", "f">>, <<"/", "r">>, <<"/", "r", "/", "f">>,
    <<"/", "r", "/", "d">>, <<"/", "r", "/", "d", "/", "f">>,
    <<"/", "r", "/", "d", "/", "s">>,
    <<"/", "r", "/", "d", "/", "s", "/", "h">>,
    <<"/", "r", "/", "d", "/", "s", "/", "k">> }

OSNode(p) ==
  CASE p = <<>>                                -> OSDir(<< <<"f">>, <<"r">>, <<"t">> >>)
    [] p = <<"/", "f">>                        -> OSFile(<<99>>, 1)
    [] p = <<"/", "t">>                        -> OSDir(<< <<"b">>, <<"f">> >>)
    [] p = <<"/", "t", "/", "b">>              -> OSFile(A24, 24)
    [] p = <<"/", "t", "/", "f">>              -> OSFile(AB, 2)
    [] p = <<"/", "r">>                        -> OSDir(<< <<"d">>, <<"f">> >>)
    [] p = <<"/", "r", "/", "f">>              -> OSFile(<<100>>, 1)
    [] p = <<"/", "r", "/", "d">>              -> OSDir(<< <<"f">>, <<"s">> >>)
    [] p = <<"/", "r", "/", "d", "/", "f">>    -> OSFile(ABC, 7)
    [] p = <<"/", "r", "/", "d", "/", "s">>    -> OSDir(<< <<"h">>, <<"k">> >>)
    [] p = <<"/", "r", "/", "d", "/", "s", "/", "h">> ->
         OSFile(AB, 1)                                     \* grew
    [] p = <<"/", "r", "/", "d", "/", "s", "/", "k">> ->
         OSFile(<<97>>, 3)                                 \* shrank

\* the directory an object lies in ("/" lies in itself)
Parent(p) == SubSeq(p, 1, LastSlash(p) - 1)

\* what a path that leads nowhere resolves to: no object of OSPaths
NoEnt == << "" >>

\* path resolution by the OS, component by component from cur: a component
\* is looked up in a directory only; "." is the directory itself and ".."
\* the one it lies in
RECURSIVE OSWalk(_, _)
OSWalk(cur, toks) ==
  IF toks = <<>> THEN cur
  ELSE IF cur \notin OSPaths \/ OSNode(cur).kind # "dir" THEN NoEnt
  ELSE LET to == IF Head(toks) = <<".">> THEN cur
                 ELSE IF Head(toks) = <<".", ".">> THEN Parent(cur)
                 ELSE cur \o <<"/">> \o Head(toks)
       IN CHOOSE r \in { OSWalk(c, t) : c \in { to }, t \in { Tail(toks) } } :
            TRUE

\* the object the OS resolves an absolute path to, NoEnt (or a path that is
\* not in OSPaths) if there is none: repeated slashes do not matter, a
\* trailing slash asks for a directory, the empty path names nothing
Canon(path) ==
  LET Res(p) ==
        IF path = <<>> THEN NoEnt
        ELSE IF /\ path[Len(path)] = "/"
                /\ p \in OSPaths
                /\ OSNode(p).kind # "dir" THEN NoEnt
        ELSE p
      Walk(toks) == OSWalk(<<>>, toks)
  IN CHOOSE r \in { Res(p) : p \in { Walk(t) : t \in { Tokens(path) } } } : TRUE

\* opendir(path): a directory stream, or NULL; left holds the entries the
\* stream has not returned yet
OSopendir(path) ==
  LET Res(p) == IF p \in OSPaths /\ OSNode(p).kind = "dir"
                THEN << [at |-> p, left |-> OSNode(p).entries] >>
                ELSE <<>>
  IN CHOOSE r \in { Res(p) : p \in { Canon(path) } } : TRUE

\* what readdir(stream) may return: any entry not returned yet, NULL once
\* there is none
OSreaddir(stream) ==
  IF stream.left = {} THEN { <<>> } ELSE { << n >> : n \in stream.left }

\* fopen(path, "r"): a stream at offset 0, or NULL
OSfopen(path) ==
  LET Res(p) == IF p \in OSPaths THEN << [at |-> p, off |-> 0] >> ELSE <<>>
  IN CHOOSE r \in { Res(p) : p \in { Canon(path) } } : TRUE

\* the bytes fread(buf, 1, count, stream) delivers
OSfread(stream, count) ==
  Take(Drop(OSNode(stream.at).content, stream.off), count)

(***************************************************************************)
(* The heap: how many objects of each kind are live.                       *)
(*   dirh  fb_dir structs        dstream  DIR streams (opendir)            *)
(*   str   strdup'ed paths       fileh    fb_file structs                  *)
(*   fstream  FILE streams       buf      malloc'ed byte buffers           *)
(***************************************************************************)
EmptyHeap ==
  [dirh |-> 0, dstream |-> 0, str |-> 0, fileh |-> 0, fstream |-> 0, buf |-> 0]

Alloc(h, k) == [h EXCEPT ![k] = @ + 1]

Free(h, k) == [h EXCEPT ![k] = @ - 1]

(***************************************************************************)
(* Directory handles (fb_dir): fb_opendir, fb_closedir, fb_readdir.        *)
(***************************************************************************)
\* calloc(1, sizeof(fb_dir)), then the fields one backend sets
BundleDir(fb) ==
  [type |-> "FB_BUNDLE", dirent |-> [name |-> <<>>, type |-> "FB_UNKNOWN"],
   broot |-> fb, bcur |-> Entries[fb].child, droot |-> <<>>, dcur |-> <<>>]

DirectDir(path, stream) ==
  [type |-> "FB_DIRECT", dirent |-> [name |-> <<>>, type |-> "FB_UNKNOWN"],
   broot |-> 0, bcur |-> 0, droot |-> path, dcur |-> stream]

\* BundleWalk without the test fb->type == FB_DIR
RECURSIVE BundleWalk_AnyType(_, _)
BundleWalk_AnyType(fb, toks) ==
  IF fb = 0 \/ toks = <<>> THEN fb
  ELSE IF Entries[fb].name = Head(toks)
  THEN IF Tail(toks) # <<>>
       THEN BundleWalk_AnyType(Entries[fb].child, Tail(toks))
       ELSE fb
  ELSE BundleWalk_AnyType(Entries[fb].next, toks)

\* the while loop of fb_opendir over the bundle tree: fb is the entry looked
\* at, toks the tokens still to match (tmp2 and what strtok has left)
RECURSIVE BundleWalk(_, _)
BundleWalk(fb, toks) ==
  IF fb = 0 \/ toks = <<>> THEN fb
  ELSE IF Entries[fb].type = "FB_DIR" /\ Entries[fb].name = Head(toks)
  THEN IF Tail(toks) # <<>>
       THEN BundleWalk(Entries[fb].child, Tail(toks))
       ELSE fb
  ELSE BundleWalk(Entries[fb].next, toks)

\* root of fb_opendir: the data root for a path that does not start with
\* '/', the empty string for one that does
OpendirRoot(path) ==
  IF path # <<>> /\ Head(path) = "/" THEN << <<>> >> ELSE dataroot

fb_opendir(path, h) ==
  LET root == OpendirRoot(path) IN
  IF root = <<>> THEN
    \* Bundle: tmp1 is strdup'ed and freed around the walk
    LET fb == BundleWalk(filebundle_root, Tokens(path))
        h1 == Free(Alloc(h, "str"), "str")
    IN IF fb # 0
       THEN [ret |-> << BundleDir(fb) >>, heap |-> Alloc(h1, "dirh")]
       ELSE [ret |-> <<>>, heap |-> h1]
  ELSE
    \* Direct
    LET buf == PathJoin(root[1], path)
        d   == OSopendir(buf)
    IN IF d # <<>>
       THEN [ret  |-> << DirectDir(buf, d) >>,
             heap |-> Alloc(Alloc(Alloc(h, "dstream"), "dirh"), "str")]
       ELSE [ret |-> <<>>, heap |-> h]

fb_closedir(d, h) ==
  IF d.type = "FB_DIRECT"
  THEN Free(Free(Free(h, "dstream"), "str"), "dirh")
  ELSE Free(h, "dirh")

\* FB_DIR or FB_FILE by lstat of dir->d.root/name, FB_UNKNOWN if lstat fails
DirectType(d, name) ==
  LET p == Canon(PathJoin(d.droot, name)) IN
  IF p \notin OSPaths THEN "FB_UNKNOWN"
  ELSE IF OSNode(p).kind = "dir" THEN "FB_DIR" ELSE "FB_FILE"

\* fb_readdir whose Bundle branch leaves dir->b.cur where it is
fb_readdir_NoAdvance(d, de) ==
  IF d.type = "FB_BUNDLE" THEN
    IF d.bcur # 0 THEN
      LET e == [name |-> Entries[d.bcur].name, type |-> Entries[d.bcur].type]
      IN [dir |-> [d EXCEPT !.dirent = e], ret |-> << e >>]
    ELSE [dir |-> d, ret |-> <<>>]
  ELSE
    IF de # <<>> THEN
      LET e == [name |-> de[1], type |-> DirectType(d, de[1])]
      IN [dir |-> [d EXCEPT !.dirent = e, !.dcur[1].left = @ \ {de[1]}],
          ret |-> << e >>]
    ELSE [dir |-> d, ret |-> <<>>]

\* the values de that readdir(dir->d.cur) may return to fb_readdir; on a
\* Bundle handle readdir is not called
ReaddirReturns(d) ==
  IF d.type = "FB_BUNDLE" THEN { <<>> } ELSE OSreaddir(d.dcur[1])

\* fb_readdir: the handle afterwards and the entry returned (NULL at the
\* end); de is what readdir returns on the stream of a Direct handle
fb_readdir(d, de) ==
  IF d.type = "FB_BUNDLE" THEN
    IF d.bcur # 0 THEN
      LET e == [name |-> Entries[d.bcur].name, type |-> Entries[d.bcur].type]
      IN [dir |-> [d EXCEPT !.dirent = e, !.bcur = Entries[d.bcur].next],
          ret |-> << e >>]
    ELSE [dir |-> d, ret |-> <<>>]
  ELSE
    IF de # <<>> THEN
      LET e == [name |-> de[1], type |-> DirectType(d, de[1])]
      IN [dir |-> [d EXCEPT !.dirent = e, !.dcur[1].left = @ \ {de[1]}],
          ret |-> << e >>]
    ELSE [dir |-> d, ret |-> <<>>]

(***************************************************************************)
(* Compression and decompression (_fb_inflate, _fb_deflate).  Each returns *)
(* the output buffer (NULL on failure) and the heap it leaves behind.      *)
(* malloc(0) returns a pointer that is not NULL, as it does for the C      *)
(* libraries the program is built with.                                    *)
(***************************************************************************)
\* _fb_inflate without the free(bufout) of its failure branch
_fb_inflate_LeaksOut(data, size, orig, h) ==
  LET h1     == Alloc(Alloc(h, "buf"), "buf")
      Bad(z) == z.err # "Z_STREAM_END" \/ z.avail_out # 0
      Ret(z) == [buf  |-> IF Bad(z) THEN <<>> ELSE << z.out >>,
                 heap |-> Free(h1, "buf")]
  IN CHOOSE r \in { Ret(z) : z \in { inflate(Take(data, size), orig) } } : TRUE

_fb_inflate(data, size, orig, h) ==
  LET h1     == Alloc(Alloc(h, "buf"), "buf")          \* bufin, bufout
      Bad(z) == z.err # "Z_STREAM_END" \/ z.avail_out # 0
      Ret(z) ==
        [buf  |-> IF Bad(z) THEN <<>> ELSE << z.out >>,
         heap |-> Free(IF Bad(z) THEN Free(h1, "buf")   \* free(bufout)
                                 ELSE h1, "buf")]       \* free(bufin)
  IN CHOOSE r \in { Ret(z) : z \in { inflate(Take(data, size), orig) } } : TRUE

\* size is the value *size holds at the call; it is written on success only
_fb_deflate(data, orig, size, h) ==
  LET h1     == Alloc(Alloc(h, "buf"), "buf")          \* bufin, bufout
      Bad(z) == (z.err # "Z_STREAM_END" /\ z.err # "Z_OK") \/ z.total_out = 0
      Ret(z) ==
        [buf  |-> IF Bad(z) THEN <<>> ELSE << z.out >>,
         size |-> IF Bad(z) THEN size ELSE z.total_out,
         heap |-> Free(IF Bad(z) THEN Free(h1, "buf")   \* free(bufout)
                                 ELSE h1, "buf")]       \* free(bufin)
  IN CHOOSE r \in { Ret(z) : z \in { deflate(Take(data, orig), orig) } } : TRUE

(***************************************************************************)
(* File handles (fb_file): fb_open2, fb_open, fb_close.                    *)
(***************************************************************************)
\* calloc(1, sizeof(fb_file)), then the fields one backend sets
BundleFile(fb) ==
  [type |-> "FB_BUNDLE", size |-> Entries[fb].size,
   gzip |-> IF Entries[fb].orig # -1 THEN 1 ELSE 0,
   buf |-> <<>>, pos |-> 0, cur |-> <<>>, root |-> fb]

DirectFile(stream, st_size) ==
  [type |-> "FB_DIRECT", size |-> st_size, gzip |-> 0,
   buf |-> <<>>, pos |-> 0, cur |-> stream, root |-> 0]

\* the scan of fb_open2 over the children of the directory: the first entry
\* whose name is the one asked for, or NULL
RECURSIVE BundleFind(_, _)
BundleFind(fb, name) ==
  IF fb = 0 THEN 0
  ELSE IF Entries[fb].name = name THEN fb
  ELSE BundleFind(Entries[fb].next, name)

\* InflateStep without ret->size = fb->f.orig
InflateStep_KeepsSize(ret, fb, decompress, h) ==
  IF Entries[fb].orig # -1 /\ decompress THEN
    LET Done(i) ==
          IF i.buf = <<>>
          THEN [ret |-> <<>>, heap |-> Free(i.heap, "fileh")]
          ELSE [ret  |-> << [ret EXCEPT !.gzip = 0, !.buf = i.buf] >>,
                heap |-> i.heap]
    IN CHOOSE r \in
         { Done(i) : i \in { _fb_inflate(Entries[fb].data, Entries[fb].size,
                                         Entries[fb].orig, h) } } : TRUE
  ELSE [ret |-> << ret >>, heap |-> h]

\* "Inflate the file": ret is the handle just built for entry fb
InflateStep(ret, fb, decompress, h) ==
  IF Entries[fb].orig # -1 /\ decompress THEN
    LET Done(i) ==
          IF i.buf = <<>>
          THEN [ret |-> <<>>, heap |-> Free(i.heap, "fileh")]
          ELSE [ret  |-> << [ret EXCEPT !.gzip = 0,
                                        !.size = Entries[fb].orig,
                                        !.buf = i.buf] >>,
                heap |-> i.heap]
    IN CHOOSE r \in
         { Done(i) : i \in { _fb_inflate(Entries[fb].data, Entries[fb].size,
                                         Entries[fb].orig, h) } } : TRUE
  ELSE [ret |-> << ret >>, heap |-> h]

\* OpenBundle with the calloc of the handle before the scan for the name
OpenBundle_AllocFirst(d, name, decompress, h) ==
  LET fb == BundleFind(Entries[d.broot].child, name) IN
  IF fb # 0
  THEN InflateStep(BundleFile(fb), fb, decompress, Alloc(h, "fileh"))
  ELSE [ret |-> <<>>, heap |-> Alloc(h, "fileh")]

\* "Bundle file"
OpenBundle(d, name, decompress, h) ==
  LET fb == BundleFind(Entries[d.broot].child, name) IN
  IF fb # 0
  THEN InflateStep(BundleFile(fb), fb, decompress, Alloc(h, "fileh"))
  ELSE [ret |-> <<>>, heap |-> h]

\* "Direct file"
OpenDirect(d, name, h) ==
  LET path == PathJoin(d.droot, name)
      f    == OSfopen(path)
  IN IF f # <<>>
     THEN [ret  |-> << DirectFile(f, OSNode(Canon(path)).st_size) >>,
           heap |-> Alloc(Alloc(h, "fstream"), "fileh")]
     ELSE [ret |-> <<>>, heap |-> h]

\* NeedCompress without the test of ret->gzip
NeedCompress_IgnoresGzip(ret, compress) ==
  ret # <<>> /\ compress

\* the condition of the "Compress" block
NeedCompress(ret, compress) ==
  ret # <<>> /\ ret[1].gzip = 0 /\ compress

\* "Get data" of a bundle handle: deflate the payload of the entry
CompressBundle(f, h) ==
  LET Done(z) == [ret  |-> [f EXCEPT !.buf = z.buf, !.size = z.size],
                  heap |-> z.heap]
  IN CHOOSE r \in
       { Done(z) : z \in { _fb_deflate(Entries[f.root].data, f.size,
                                       f.size, h) } } : TRUE

\* CompressDirect without fclose(ret->d.cur) and ret->d.cur = NULL
CompressDirect_KeepsStream(f, h) ==
  LET h1      == Alloc(h, "buf")
      data    == OSfread(f.cur[1], f.size)
      Done(z) == [ret  |-> [f EXCEPT !.buf = z.buf, !.size = z.size],
                  heap |-> Free(z.heap, "buf")]
  IN CHOOSE r \in
       { Done(z) : z \in
           { IF Len(data) = f.size
             THEN _fb_deflate(data, f.size, f.size, h1)
             ELSE [buf |-> f.buf, size |-> f.size, heap |-> h1] } } : TRUE

\* "Get data" of a direct handle: read the whole stream, deflate what was
\* read if it is as long as lstat said, close the stream
CompressDirect(f, h) ==
  LET h1      == Alloc(h, "buf")                       \* data
      data    == OSfread(f.cur[1], f.size)
      Done(z) ==
        [ret  |-> [f EXCEPT !.buf = z.buf, !.size = z.size, !.cur = <<>>],
         heap |-> Free(Free(z.heap, "fstream"), "buf")] \* fclose, free(data)
  IN CHOOSE r \in
       { Done(z) : z \in
           { IF Len(data) = f.size
             THEN _fb_deflate(data, f.size, f.size, h1)
             ELSE [buf |-> f.buf, size |-> f.size, heap |-> h1] } } : TRUE

\* the "Compress" block: ret is what the backend part produced
CompressStep(ret, compress, h) ==
  IF NeedCompress(ret, compress) THEN
    LET f       == [ret[1] EXCEPT !.gzip = 1]
        Done(c) ==
          IF c.ret.buf = <<>>
          THEN [ret |-> <<>>, heap |-> Free(c.heap, "fileh")]  \* "Cleanup"
          ELSE [ret |-> << c.ret >>, heap |-> c.heap]
    IN CHOOSE r \in
         { Done(c) : c \in { IF f.type = "FB_BUNDLE"
                             THEN CompressBundle(f, h)
                             ELSE CompressDirect(f, h) } } : TRUE
  ELSE [ret |-> ret, heap |-> h]

\* fb_open2 (callers keep to assert(!decompress || !compress))
fb_open2(d, name, decompress, compress, h) ==
  CHOOSE r \in
    { CompressStep(o.ret, compress, o.heap) :
        o \in { IF d.type = "FB_BUNDLE"
                THEN OpenBundle(d, name, decompress, h)
                ELSE OpenDirect(d, name, h) } } : TRUE

\* fb_open: tmp is the copy of path, cut at its last '/'
fb_open(path, decompress, compress, h) ==
  LET pos     == LastSlash(path)
      h1      == Alloc(h, "str")                        \* tmp = strdup(path)
      Done(o) == [ret |-> o.ret, heap |-> Free(o.heap, "str")]
      Found(d) ==
        IF d.ret = <<>> THEN [ret |-> <<>>, heap |-> Free(d.heap, "str")]
        ELSE CHOOSE r \in
               { Done(o) : o \in { fb_open2(d.ret[1], Drop(path, pos),
                                            decompress, compress,
                                            d.heap) } } : TRUE
  IN IF pos = 0 THEN [ret |-> <<>>, heap |-> Free(h1, "str")]
     ELSE CHOOSE r \in
            { Found(d) : d \in { fb_opendir(SubSeq(path, 1, pos - 1), h1) } }
            : TRUE

\* fb_close without the test of fp->d.cur
fb_close_AlwaysFclose(f, h) ==
  LET h1 == IF f.type = "FB_DIRECT" THEN Free(h, "fstream") ELSE h
      h2 == IF f.buf # <<>> THEN Free(h1, "buf") ELSE h1
  IN Free(h2, "fileh")

fb_close(f, h) ==
  LET h1 == IF f.type = "FB_DIRECT" /\ f.cur # <<>>
            THEN Free(h, "fstream") ELSE h
      h2 == IF f.buf # <<>> THEN Free(h1, "buf") ELSE h1
  IN Free(h2, "fileh")

(***************************************************************************)
(* Reading: fb_size, fb_gzipped, fb_eof, fb_read, fb_gets.                 *)
(***************************************************************************)
fb_size(f) == f.size

fb_gzipped(f) == f.gzip

fb_eof(f) == f.pos >= f.size

\* fb_read(fp, buf + at, count): the handle and the caller's array
\* afterwards, and the value returned
fb_read(f, buf, at, count) ==
  IF fb_eof(f) THEN [fp |-> f, buf |-> buf, r |-> -1]
  ELSE IF f.buf # <<>> THEN
    LET n == Min(count, f.size - f.pos) IN
    [fp  |-> [f EXCEPT !.pos = @ + n],
     buf |-> Memcpy(buf, at, SubSeq(f.buf[1], f.pos + 1, f.pos + n)),
     r   |-> n]
  ELSE IF f.type = "FB_DIRECT" THEN
    LET got == OSfread(f.cur[1], count) IN
    [fp  |-> [f EXCEPT !.pos = @ + Len(got), !.cur[1].off = @ + Len(got)],
     buf |-> Memcpy(buf, at, got),
     r   |-> -1]
  ELSE
    LET n == Min(count, Entries[f.root].size - f.pos) IN
    [fp  |-> [f EXCEPT !.pos = @ + n],
     buf |-> Memcpy(buf, at,
                    SubSeq(Entries[f.root].data, f.pos + 1, f.pos + n)),
     r   |-> n]

\* the while loop of fb_gets with c bytes gathered so far: one fb_read of a
\* single byte (rd), then the test of c against count - 1
RECURSIVE GetsLoop(_, _, _, _)
GetsLoop(f, buf, c, count) ==
  LET Body(rd) ==
        IF rd.r # 0 /\ c < count - 1 THEN
          IF rd.buf[c + 1] = 10 \/ rd.buf[c + 1] = 0
          THEN [fp |-> rd.fp, buf |-> rd.buf, c |-> c + 1, err |-> rd.r]
          ELSE GetsLoop(rd.fp, rd.buf, c + 1, count)
        ELSE [fp |-> rd.fp, buf |-> rd.buf, c |-> c, err |-> rd.r]
  IN CHOOSE r \in { Body(rd) : rd \in { fb_read(f, buf, c, 1) } } : TRUE

\* fb_gets (count >= 1): ret is NULL or the string left in the array
fb_gets(f, buf, count) ==
  LET Done(l) ==
        IF l.err < 0 THEN [fp |-> l.fp, buf |-> l.buf, ret |-> <<>>]
        ELSE [fp  |-> l.fp, buf |-> Memcpy(l.buf, l.c, <<0>>),
              ret |-> << CStr(Memcpy(l.buf, l.c, <<0>>)) >>]
  IN CHOOSE r \in { Done(l) : l \in { GetsLoop(f, buf, 0, count) } } : TRUE

(***************************************************************************)
(* The caller: inputs of the model.                                        *)
(***************************************************************************)
Names ==
  { <<"f">>, <<"g">>, <<"b">>, <<"z">>, <<"c">>, <<"s">>, <<"y">>,
    <<"h">>, <<"k">>, <<"x">> }

DirPaths ==
  { <<>>, <<"d">>, <<"m">>, <<"x">>, <<"d", "/", "s">>, <<"d", "/", "f">>,
    <<"d", "/", "s", "/", "x">>, <<"/", "t">>, <<"/", "x">>,
    <<"s">>, <<"d", "/", "m">>, <<"d", "/">> }

FilePaths ==
  { <<"d", "/">> \o n : n \in Names }
    \cup { <<"f">>, <<"m", "/", "f">>, <<"x", "/", "f">>, <<"/", "f">>,
           <<"/", "t", "/", "f">>, <<"/", "x", "/", "f">>,
           <<"/", "t", "/", "b">>, <<"d", "/", "s", "/", "h">>,
           <<"d", "/", "s", "/", "k">> }

\* (decompress, compress), never both: assert(!decompress || !compress)
Flags == { <<FALSE, FALSE>>, <<TRUE, FALSE>>, <<FALSE, TRUE>> }

Counts == { 1, 2, BufLen }

\* the array the caller passes to a read: BufLen bytes, none of them written
\* yet (each holds '?')
FreshBuf == Rep(63, BufLen)

NoCall ==
  [op |-> "none", path |-> <<>>, dec |-> FALSE, comp |-> FALSE, count |-> 0,
   r |-> 0, line |-> <<>>, de |-> <<>>]

\* the record of what was opened: the source, and the flags of the open
NoSrc ==
  [kind |-> "none", entry |-> 0, at |-> <<>>, dec |-> FALSE, comp |-> FALSE]

\* what fb_open2(d, name, ...) looks at: a bundle entry or an OS path
SourceOf(d, name) ==
  IF d.type = "FB_BUNDLE" THEN
    LET fb == BundleFind(Entries[d.broot].child, name) IN
    IF fb = 0 THEN NoSrc ELSE [NoSrc EXCEPT !.kind = "bundle", !.entry = fb]
  ELSE
    LET p == Canon(PathJoin(d.droot, name)) IN
    IF p \in OSPaths THEN [NoSrc EXCEPT !.kind = "direct", !.at = p]
    ELSE NoSrc

\* the stored bytes of a source, and whether they are stored gzip-compressed
SrcContent(s) ==
  IF s.kind = "bundle" THEN Entries[s.entry].data
  ELSE IF s.kind = "direct" THEN OSNode(s.at).content
  ELSE <<>>

SrcIsFile(s) ==
  \/ s.kind = "bundle" /\ Entries[s.entry].type = "FB_FILE"
  \/ s.kind = "direct" /\ OSNode(s.at).kind = "file"

SrcGzip(s) == s.kind = "bundle" /\ Entries[s.entry].orig # -1

(***************************************************************************)
(* The state machine: one action per exported function.                    *)
(***************************************************************************)
Init ==
  /\ dataroot \in { <<>>, << <<"/", "r">> >> }
  /\ dir = <<>>
  /\ fp = <<>>
  /\ heap = EmptyHeap
  /\ cbuf = FreshBuf
  /\ last = NoCall
  /\ src = NoSrc
  /\ mode = "fresh"
  /\ out = <<>>
  /\ lines = <<>>
  /\ seen = <<>>

\* the caller holds one directory and one file at a time.  It opens a
\* directory while it holds no file, lists it and opens files of it with
\* fb_open2; it opens a file by its path while it holds no directory; and it
\* reads a file once it has closed the directory
OpenDir(path) ==
  /\ dir = <<>>
  /\ fp = <<>>
  /\ \E o \in { fb_opendir(path, heap) } :
     /\ dir' = o.ret
     /\ heap' = o.heap
     /\ last' = [NoCall EXCEPT !.op = "opendir", !.path = path,
                               !.r = IF o.ret = <<>> THEN 0 ELSE 1]
  /\ seen' = <<>>
  /\ UNCHANGED <<dataroot, fp, cbuf, src, mode, out, lines>>

ReadDir ==
  /\ dir # <<>>
  /\ \E de \in ReaddirReturns(dir[1]) : \E o \in { fb_readdir(dir[1], de) } :
     /\ dir' = << o.dir >>
     /\ last' = [NoCall EXCEPT !.op = "readdir", !.de = o.ret,
                               !.r = IF o.ret = <<>> THEN 0 ELSE 1]
     /\ seen' = IF o.ret = <<>> \/ dir[1].type # "FB_BUNDLE" THEN seen
                ELSE Append(seen, o.ret[1])
  /\ UNCHANGED <<dataroot, fp, heap, cbuf, src, mode, out, lines>>

CloseDir ==
  /\ dir # <<>>
  /\ heap' = fb_closedir(dir[1], heap)
  /\ dir' = <<>>
  /\ last' = [NoCall EXCEPT !.op = "closedir"]
  /\ seen' = <<>>
  /\ UNCHANGED <<dataroot, fp, cbuf, src, mode, out, lines>>

Open2(name, fl) ==
  /\ dir # <<>>
  /\ fp = <<>>
  /\ \E o \in { fb_open2(dir[1], name, fl[1], fl[2], heap) } :
     /\ fp' = o.ret
     /\ heap' = o.heap
     /\ last' = [NoCall EXCEPT !.op = "open2", !.path = name, !.dec = fl[1],
                               !.comp = fl[2],
                               !.r = IF o.ret = <<>> THEN 0 ELSE 1]
  /\ src' = [SourceOf(dir[1], name) EXCEPT !.dec = fl[1], !.comp = fl[2]]
  /\ mode' = "fresh"
  /\ out' = <<>>
  /\ lines' = <<>>
  /\ UNCHANGED <<dataroot, dir, cbuf, seen>>

\* the directory fb_open opens for itself, for the record of the source
OpenSource(path) ==
  LET pos == LastSlash(path)
      d   == fb_opendir(SubSeq(path, 1, pos - 1), heap)
  IN IF pos = 0 \/ d.ret = <<>> THEN NoSrc
     ELSE SourceOf(d.ret[1], Drop(path, pos))

Open(path, fl) ==
  /\ fp = <<>>
  /\ dir = <<>>
  /\ heap.dirh - Len(dir) < MaxLeak
  /\ \E o \in { fb_open(path, fl[1], fl[2], heap) } :
     /\ fp' = o.ret
     /\ heap' = o.heap
     /\ last' = [NoCall EXCEPT !.op = "open", !.path = path, !.dec = fl[1],
                               !.comp = fl[2],
                               !.r = IF o.ret = <<>> THEN 0 ELSE 1]
  /\ src' = [OpenSource(path) EXCEPT !.dec = fl[1], !.comp = fl[2]]
  /\ mode' = "fresh"
  /\ out' = <<>>
  /\ lines' = <<>>
  /\ UNCHANGED <<dataroot, dir, cbuf, seen>>

Close ==
  /\ fp # <<>>
  /\ heap' = fb_close(fp[1], heap)
  /\ fp' = <<>>
  /\ last' = [NoCall EXCEPT !.op = "close"]
  /\ src' = NoSrc
  /\ mode' = "fresh"
  /\ out' = <<>>
  /\ lines' = <<>>
  /\ cbuf' = FreshBuf
  /\ UNCHANGED <<dataroot, dir, seen>>

\* out: what a caller that only calls fb_read has gathered, taking from its
\* array the number of bytes each call returned
Read(count) ==
  /\ fp # <<>>
  /\ dir = <<>>
  /\ \E rd \in { fb_read(fp[1], FreshBuf, 0, count) },
        m \in { IF mode \in {"fresh", "reads"} THEN "reads" ELSE "mixed" } :
       /\ fp' = << rd.fp >>
       /\ cbuf' = rd.buf
       /\ last' = [NoCall EXCEPT !.op = "read", !.count = count, !.r = rd.r]
       /\ mode' = m
       /\ out' = IF m # "reads" THEN <<>>
                 ELSE IF rd.r > 0 THEN out \o Take(rd.buf, rd.r) ELSE out
  /\ lines' = <<>>
  /\ UNCHANGED <<dataroot, dir, heap, src, seen>>

\* lines: what a caller that only calls fb_gets, with the whole array, has
\* gathered
Gets(count) ==
  /\ fp # <<>>
  /\ dir = <<>>
  /\ \E g \in { fb_gets(fp[1], FreshBuf, count) },
        m \in { IF mode \in {"fresh", "lines"} /\ count = BufLen
                THEN "lines" ELSE "mixed" } :
       /\ fp' = << g.fp >>
       /\ cbuf' = g.buf
       /\ last' = [NoCall EXCEPT !.op = "gets", !.count = count,
                                 !.line = g.ret,
                                 !.r = IF g.ret = <<>> THEN 0 ELSE 1]
       /\ mode' = m
       /\ lines' = IF m # "lines" THEN <<>>
                   ELSE IF g.ret # <<>> THEN Append(lines, g.ret[1])
                   ELSE lines
  /\ out' = <<>>
  /\ UNCHANGED <<dataroot, dir, heap, src, seen>>

Next ==
  \/ \E p \in DirPaths : OpenDir(p)
  \/ ReadDir
  \/ CloseDir
  \/ \E n \in Names, fl \in Flags : Open2(n, fl)
  \/ \E p \in FilePaths, fl \in Flags : Open(p, fl)
  \/ Close
  \/ \E c \in Counts \cup {0} : Read(c)
  \/ \E c \in Counts : Gets(c)

Spec == Init /\ [][Next]_vars

(***************************************************************************)
(* What the caller's handles account for on the heap.                      *)
(***************************************************************************)
\* 1 if the caller holds a Direct directory handle (a DIR stream and a path)
HeldDirect == IF dir # <<>> /\ dir[1].type = "FB_DIRECT" THEN 1 ELSE 0

\* a read step: fb_read or fb_gets has just been called on the held handle
ReadStep == fp # <<>> /\ fp' # <<>> /\ last'.op \in {"read", "gets"}

(***************************************************************************)
(* C1.  fb_open releases the directory handle it opened internally on      *)
(* every return path: when fb_open has returned, whether it found the file *)
(* or not, no fb_dir, no DIR stream and no path string is allocated beyond *)
(* what the caller's own directory handle holds.                           *)
(***************************************************************************)
C1_OpenReleasesDir ==
  last.op = "open" =>
    /\ heap.dirh = Len(dir)
    /\ heap.dstream = HeldDirect
    /\ heap.str = HeldDirect

(***************************************************************************)
(* C2.  For every file handle 0 <= cursor <= size holds in every state,    *)
(* and no fb_read or fb_gets decreases the cursor; on all three read paths *)
(* (owned buffer, bundle payload, direct stream), also when the direct     *)
(* stream delivers more bytes than lstat reported at open.                 *)
(***************************************************************************)
C2_CursorWithinSize ==
  [][ /\ fp' # <<>> => (0 <= fp'[1].pos /\ fp'[1].pos <= fp'[1].size)
      /\ ReadStep => fp'[1].pos >= fp[1].pos ]_vars

(***************************************************************************)
(* C3.  For every kind of file handle, fb_read on a handle that is not at  *)
(* its end returns the number of bytes it copied to the caller (the        *)
(* advance of the cursor), and it returns the end-of-stream value -1 only  *)
(* when the handle is at its end (cursor >= size) when called.             *)
(***************************************************************************)
C3_ReadReturnsCount ==
  [][ (fp # <<>> /\ fp' # <<>> /\ last'.op = "read") =>
        IF fb_eof(fp[1]) THEN last'.r = -1
        ELSE last'.r = fp'[1].pos - fp[1].pos ]_vars

\* a line without the newline that ends it
Chomp(l) == IF l # <<>> /\ l[Len(l)] = 10 THEN SubSeq(l, 1, Len(l) - 1) ELSE l

(***************************************************************************)
(* C4.  fb_gets on "abc\ndef" with an array larger than the content        *)
(* returns "abc" on the first call, "def" on the second and end-of-stream  *)
(* (NULL) on the third: when a caller that reads the bundle file d/f line  *)
(* by line is told end-of-stream, it has been given every line in order,   *)
(* the last one included although no newline ends it.  (Lines are compared *)
(* without their newline.)                                                 *)
(***************************************************************************)
C4_ReadLineAbcDef ==
  ( /\ fp # <<>>
    /\ fp[1].buf = <<>>
    /\ src.kind = "bundle"
    /\ SrcIsFile(src)
    /\ SrcContent(src) = ABC
    /\ mode = "lines"
    /\ last.op = "gets"
    /\ last.line = <<>> )
  => [i \in 1..Len(lines) |-> Chomp(lines[i])]
       = << <<97, 98, 99>>, <<100, 101, 102>> >>

(***************************************************************************)
(* C5.  Compress round trip: for a source that is not stored gzip          *)
(* (a plain bundle file or a direct file, of any length, empty included),  *)
(* an open with compress set succeeds with fb_gzipped true, the size is    *)
(* the length of the whole gzip stream, and gunzip of the bytes a loop of  *)
(* fb_read calls has gathered at the end is the original content.          *)
(***************************************************************************)
C5_CompressRoundTrip ==
  ( /\ src.kind # "none"
    /\ src.comp
    /\ SrcIsFile(src)
    /\ ~SrcGzip(src) )
  => /\ fp # <<>>
     /\ fb_gzipped(fp[1]) = 1
     /\ fb_size(fp[1]) = Len(Gzip(SrcContent(src)))
     /\ (mode = "reads" /\ fb_eof(fp[1]))
          => Gunzip(out) = [ok |-> TRUE, data |-> SrcContent(src)]

(***************************************************************************)
(* C6.  A file handle never holds an owned buffer and an open OS stream at *)
(* the same time: in every state in which the caller holds a file handle,  *)
(* if its buffer is present its stream is closed and the reference to it   *)
(* is NULL (a closed stream is not counted among the open ones).           *)
(***************************************************************************)
C6_BufferExcludesStream ==
  (fp # <<>> /\ fp[1].buf # <<>>) => (fp[1].cur = <<>> /\ heap.fstream = 0)

\* a direct handle that holds the buffer the compress step made
C6_Witness ==
  /\ fp # <<>>
  /\ fp[1].type = "FB_DIRECT"
  /\ fp[1].buf # <<>>
  /\ src.kind = "direct"
  /\ src.comp

(***************************************************************************)
(* C7.  Every failing return of fb_open2 (name not found, inflate failure, *)
(* deflate failure, short read of the direct stream before compression)    *)
(* returns NULL and leaves nothing allocated: no fb_file, no input or      *)
(* output buffer and no open stream.                                       *)
(***************************************************************************)
C7_FailedOpenLeavesNothing ==
  (last.op \in {"open2", "open"} /\ last.r = 0) =>
    /\ fp = <<>>
    /\ heap.fileh = 0
    /\ heap.fstream = 0
    /\ heap.buf = 0

\* fb_open2 has failed because the stored stream does not inflate to the
\* recorded size
C7_Witness ==
  /\ last.op = "open2"
  /\ last.r = 0
  /\ src.kind = "bundle"
  /\ src.dec
  /\ SrcGzip(src)
  /\ SrcIsFile(src)
  /\ Len(Gunzip(SrcContent(src)).data) # Entries[src.entry].orig

(***************************************************************************)
(* C8.  Once a file handle is at its end (cursor >= size) every further    *)
(* fb_read returns -1 and leaves the handle (cursor, size, gzip flag,      *)
(* buffer) and the caller's array as they were, so the handle stays at its *)
(* end until it is closed; and fb_eof is true exactly in the states where  *)
(* cursor = size.                                                          *)
(***************************************************************************)
C8_EofIsStable ==
  [][ /\ (fp # <<>> /\ fb_eof(fp[1]) /\ fp' # <<>> /\ last'.op = "read")
          => (last'.r = -1 /\ fp' = fp /\ cbuf' = FreshBuf)
      /\ fp' # <<>> => (fb_eof(fp'[1]) <=> fp'[1].pos = fp'[1].size) ]_vars

(***************************************************************************)
(* C9.  Decompress round trip: for a bundle file stored gzip with recorded *)
(* original size N, an open with decompress set gives a handle that is not *)
(* gzip, has size N and owns a buffer; what a loop of fb_read calls (of    *)
(* any counts) gathers is always the first bytes of the original, as many  *)
(* as the cursor says, and is all N of them when fb_read returns -1.       *)
(***************************************************************************)
\* the entry is a file whose payload is the gzip stream of some content of
\* the recorded size
StoredGzip(s) ==
  /\ s.kind = "bundle"
  /\ SrcIsFile(s)
  /\ SrcGzip(s)
  /\ Gunzip(SrcContent(s)).ok
  /\ Len(Gunzip(SrcContent(s)).data) = Entries[s.entry].orig

C9_DecompressRoundTrip ==
  (src.dec /\ src.kind = "bundle" /\ SrcIsFile(src) /\ SrcGzip(src)) =>
    \A g \in { Gunzip(SrcContent(src)) } :
      (g.ok /\ Len(g.data) = Entries[src.entry].orig) =>
        /\ fp # <<>>
        /\ fb_gzipped(fp[1]) = 0
        /\ fb_size(fp[1]) = Entries[src.entry].orig
        /\ fp[1].buf # <<>>
        /\ mode = "reads" =>
             /\ out = Take(g.data, fp[1].pos)
             /\ Len(out) = fp[1].pos
             /\ (last.op = "read" /\ last.r = -1) => out = g.data

\* d/g, opened with decompress, has been read to its end: "ab"
C9_Witness ==
  /\ src.dec
  /\ StoredGzip(src)
  /\ fp # <<>>
  /\ mode = "reads"
  /\ last.op = "read"
  /\ last.r = -1
  /\ out = AB

(***************************************************************************)
(* C10.  An open with compress set (and decompress not set) of a bundle    *)
(* file that is stored gzip does not compress again: the handle is gzip,   *)
(* its size is the stored size, it owns no buffer, and what a loop of      *)
(* fb_read calls gathers is the stored payload, byte for byte.             *)
(***************************************************************************)
C10_NoRecompress ==
  (src.kind = "bundle" /\ SrcIsFile(src) /\ SrcGzip(src) /\ src.comp) =>
    /\ fp # <<>>
    /\ fb_gzipped(fp[1]) = 1
    /\ fb_size(fp[1]) = Entries[src.entry].size
    /\ fp[1].buf = <<>>
    /\ mode = "reads" =>
         /\ out = Take(SrcContent(src), fp[1].pos)
         /\ Len(out) = fp[1].pos
         /\ (last.op = "read" /\ last.r = -1) => out = SrcContent(src)

\* d/g, opened with compress, has been read to its end: its stored stream
C10_Witness ==
  /\ src.kind = "bundle"
  /\ src.entry = 4
  /\ src.comp
  /\ fp # <<>>
  /\ mode = "reads"
  /\ last.op = "read"
  /\ last.r = -1
  /\ out = Gzip(AB)


(***************************************************************************)
(* Directory listing and lookup.                                           *)
(***************************************************************************)
\* the entries linked from e by next, in order
RECURSIVE Chain(_)
Chain(e) == IF e = 0 THEN <<>> ELSE <<e>> \o Chain(Entries[e].next)

\* the children c1..cn of a directory node of the bundle, as fb_readdir is
\* to report them
Listing(node) ==
  LET kids == Chain(Entries[node].child) IN
  [i \in 1..Len(kids) |->
     [name |-> Entries[kids[i]].name, type |-> Entries[kids[i]].type]]

\* a step that is a call of fb_readdir on a Bundle handle
BundleReadDirStep ==
  /\ dir # <<>>
  /\ dir[1].type = "FB_BUNDLE"
  /\ dir' # <<>>
  /\ last'.op = "readdir"

\* C11: on a Bundle directory handle over a node with children c1..cn, the
\* k-th call of fb_readdir since fb_opendir (seen holds the k-1 entries the
\* calls before it returned) returns the name and the type of ck for k <= n
\* and NULL for k > n; what has been returned is always c1..cj for some j,
\* so no child is repeated or skipped.
C11_ReadDirInOrder ==
  [][ BundleReadDirStep =>
        LET all == Listing(dir[1].broot)
            k   == Len(seen) + 1
        IN /\ IF k <= Len(all) THEN last'.de = << all[k] >>
                               ELSE last'.de = <<>>
           /\ Len(seen') <= Len(all)
           /\ seen' = SubSeq(all, 1, Len(seen')) ]_vars

\* all eight children of "d" have been returned and the next call returned
\* NULL
C11_Witness ==
  /\ dir # <<>>
  /\ dir[1].type = "FB_BUNDLE"
  /\ dir[1].broot = 1
  /\ Len(seen) = 8
  /\ last.op = "readdir"
  /\ last.de = <<>>

\* the directory behind d holds nothing called name
Missing(d, name) ==
  IF d.type = "FB_BUNDLE"
  THEN \A i \in 1..Len(Listing(d.broot)) : Listing(d.broot)[i].name # name
  ELSE Canon(PathJoin(d.droot, name)) \notin OSPaths

\* a step that is a call of fb_readdir on a Direct handle
DirectReadDirStep ==
  /\ dir # <<>>
  /\ dir[1].type = "FB_DIRECT"
  /\ dir' # <<>>
  /\ last'.op = "readdir"

\* C12: fb_open2 leaves the directory handle as it was (its backend
\* reference and its cursor), whether the name is found or not, so that
\* with fb_open2 calls among the fb_readdir calls the entries returned are
\* what they are without them: on a Bundle handle the listing of the
\* directory from its start, on a Direct handle an entry the stream has
\* not returned before, and NULL only after all of them; and for a name
\* the directory does not hold it returns NULL and allocates nothing.
C12_Open2LeavesDir ==
  [][ /\ (dir # <<>> /\ last'.op = "open2") =>
           /\ dir' = dir
           /\ seen' = seen
           /\ Missing(dir[1], last'.path) => (fp' = <<>> /\ heap' = heap)
      /\ (dir' # <<>> /\ dir'[1].type = "FB_BUNDLE") =>
           /\ Len(seen') <= Len(Listing(dir'[1].broot))
           /\ seen' = SubSeq(Listing(dir'[1].broot), 1, Len(seen'))
      /\ DirectReadDirStep =>
           /\ dir[1].dcur[1].left \subseteq OSNode(dir[1].dcur[1].at).entries
           /\ IF last'.de = <<>>
              THEN dir[1].dcur[1].left = {} /\ dir' = dir
              ELSE /\ last'.de[1].name \in dir[1].dcur[1].left
                   /\ dir'[1].dcur[1].left =
                        dir[1].dcur[1].left \ { last'.de[1].name } ]_vars

\* fb_open2 has just failed on a missing name, on a Bundle handle that has
\* returned some of its entries and has more to return
C12_Witness ==
  /\ dir # <<>>
  /\ dir[1].type = "FB_BUNDLE"
  /\ last.op = "open2"
  /\ last.r = 0
  /\ Missing(dir[1], last.path)
  /\ Len(seen) >= 1
  /\ dir[1].bcur # 0

\* C13: a file handle fb_open2 returns on a Bundle directory handle is on a
\* child of type FB_FILE whose name is the name asked for; a child of type
\* FB_DIR with that name is never opened as a file.
C13_OnlyFileNodes ==
  (last.op = "open2" /\ fp # <<>> /\ fp[1].type = "FB_BUNDLE") =>
     /\ Entries[fp[1].root].type = "FB_FILE"
     /\ Entries[fp[1].root].name = last.path

\* the first node of type FB_DIR called seg among first and the siblings
\* after it, 0 if there is none
DirNamed(first, seg) ==
  LET sibs == Chain(first)
      hits == { i \in 1..Len(sibs) : /\ Entries[sibs[i]].type = "FB_DIR"
                                     /\ Entries[sibs[i]].name = seg }
  IN IF hits = {} THEN 0
     ELSE sibs[CHOOSE i \in hits : \A j \in hits : i <= j]

\* the node a list of segments leads to from the siblings at first, each
\* segment naming a directory among the siblings of its level; 0 if one
\* of them names none.  No segment at all leads to the root itself.
RECURSIVE Resolve(_, _)
Resolve(first, segs) ==
  IF segs = <<>> THEN first
  ELSE LET e == DirNamed(first, Head(segs)) IN
       IF e = 0 \/ Len(segs) = 1 THEN e
       ELSE IF Entries[e].child = 0 THEN 0
       ELSE Resolve(Entries[e].child, Tail(segs))

\* C14: in bundle mode (no data root, path not absolute) fb_opendir(path)
\* returns a Bundle handle exactly when every segment of path (the
\* non-empty pieces between '/') names, in order from the bundle root, a
\* node of type FB_DIR among the siblings of its level; the handle is then
\* on the node the last segment names, with its cursor on that node's first
\* child; otherwise NULL is returned.
C14_BundleWalk ==
  (/\ last.op = "opendir"
   /\ dataroot = <<>>
   /\ ~(last.path # <<>> /\ Head(last.path) = "/")) =>
     LET want == Resolve(filebundle_root, Tokens(last.path)) IN
     IF want = 0 THEN dir = <<>>
     ELSE /\ dir # <<>>
          /\ dir[1].type = "FB_BUNDLE"
          /\ dir[1].broot = want
          /\ dir[1].bcur = Entries[want].child
          /\ Entries[want].type = "FB_DIR"

\* fb_opendir("d/s") has returned a handle on the directory "s" inside "d"
C14_Witness ==
  /\ last.op = "opendir"
  /\ dataroot = <<>>
  /\ last.path = <<"d", "/", "s">>
  /\ dir # <<>>
  /\ dir[1].broot = 8

(***************************************************************************)
(* Resources of a file handle.                                             *)
(***************************************************************************)
\* C15: from fb_open2 or fb_open through any reads to fb_close every
\* resource of the file handle is released exactly once.  The counts of
\* handles, open streams and buffers are those the held handle owns (so a
\* stream the compress step closed is not open and is not closed again),
\* and after fb_close all three are 0: none was released twice (a count
\* below 0) and none was left (a count above 0).
C15_ReleasedOnce ==
  /\ heap.fileh = Len(fp)
  /\ heap.fstream =
       IF fp # <<>> /\ fp[1].type = "FB_DIRECT" /\ fp[1].cur # <<>>
       THEN 1 ELSE 0
  /\ heap.buf = IF fp # <<>> /\ fp[1].buf # <<>> THEN 1 ELSE 0
  /\ last.op = "close" =>
       (heap.fileh = 0 /\ heap.fstream = 0 /\ heap.buf = 0)

\* a Direct file opened with compress: its stream was closed by the
\* compress step, its buffer is held, and it has been read from
C15_Witness ==
  /\ fp # <<>>
  /\ fp[1].type = "FB_DIRECT"
  /\ fp[1].cur = <<>>
  /\ fp[1].buf # <<>>
  /\ last.op = "read"
  /\ heap.fstream = 0
  /\ heap.buf = 1

(***************************************************************************)
(* Lines and draining.                                                     *)
(***************************************************************************)
\* a step that is a call of fb_gets which returned a line; the handle is
\* one whose fb_read returns the count of bytes it read (a Bundle handle or
\* one with a buffer)
GetsStep ==
  /\ fp # <<>>
  /\ fp' # <<>>
  /\ last'.op = "gets"
  /\ last'.line # <<>>
  /\ (fp[1].type = "FB_BUNDLE" \/ fp[1].buf # <<>>)

\* C16: a call of fb_gets that returns a line of k bytes (k <= count - 1,
\* the newline included if one was read) moves the cursor on by exactly k,
\* and the bytes of the line are the k bytes the cursor passed: no byte is
\* consumed without being returned.
C16_GetsConsumesWhatItReturns ==
  [][ GetsStep =>
        LET k == Len(last'.line[1]) IN
        /\ k <= last'.count - 1
        /\ fp'[1].pos = fp[1].pos + k ]_vars

(***************************************************************************)
(* The draining caller: it opens a file and then calls fb_read with a      *)
(* count of at least 1 for as long as fb_eof is false, and closes the      *)
(* handle once fb_eof is true.  It opens no directory while it holds a     *)
(* file.                                                                   *)
(***************************************************************************)
DrainOpenDir(path) ==
  /\ fp = <<>>
  /\ OpenDir(path)

DrainRead(count) ==
  /\ fp # <<>>
  /\ ~fb_eof(fp[1])
  /\ Read(count)

DrainClose ==
  /\ fp # <<>>
  /\ fb_eof(fp[1])
  /\ Close

NextDrain ==
  \/ \E p \in DirPaths : DrainOpenDir(p)
  \/ CloseDir
  \/ \E n \in Names, fl \in Flags : Open2(n, fl)
  \/ \E c \in Counts : DrainRead(c)
  \/ DrainClose

\* the loop goes on: while a read is possible the caller does read
SpecDrain ==
  Init /\ [][NextDrain]_vars /\ WF_vars(\E c \in Counts : DrainRead(c))

\* C17: once the caller holds a file handle and nothing but its read loop
\* is left to run, the loop ends: fb_eof becomes true after finitely many
\* calls of fb_read, whatever the backend and whatever the OS stream
\* delivers.
C17_DrainTerminates ==
  (fp # <<>> /\ dir = <<>>) ~> (fp = <<>> \/ fb_eof(fp[1]))

(***************************************************************************)
(* Absolute paths.                                                         *)
(***************************************************************************)
IsAbsolute(path) == path # <<>> /\ Head(path) = "/"

\* C18: a path that begins with '/' never goes through the data root or
\* the bundle.  fb_opendir returns a Direct handle on the OS directory of
\* that path (or NULL if there is none), whatever the data root; and the
\* file fb_open returns for an absolute path is the OS file of that path,
\* opened through the Direct backend (or NULL if there is none).
C18_AbsoluteIsDirect ==
  /\ (last.op = "opendir" /\ IsAbsolute(last.path)) =>
       IF Canon(last.path) \in OSPaths
            /\ OSNode(Canon(last.path)).kind = "dir"
       THEN /\ dir # <<>>
            /\ dir[1].type = "FB_DIRECT"
            /\ Canon(dir[1].droot) = Canon(last.path)
       ELSE dir = <<>>
  /\ (last.op = "open" /\ IsAbsolute(last.path)) =>
       IF Canon(last.path) \in OSPaths
       THEN /\ fp # <<>>
            /\ fp[1].type = "FB_DIRECT"
            /\ src.kind = "direct"
            /\ src.at = Canon(last.path)
       ELSE fp = <<>>
====
